---- MODULE Spec2Model ----
(***************************************************************************)
(* Model of the OAuth security utilities (workers-oauth-utils) and of the  *)
(* Google OAuth handler routes that use them: the KV state store, the      *)
(* session binding, the CSRF guard and the signed approved-clients cookie. *)
(*                                                                         *)
(* Text is modelled by TLA+ strings handled character by character, so     *)
(* that hex encoding, base64, cookie parsing and JSON are computed the way *)
(* the code and the platform compute them.  The platform digests (SHA-256, *)
(* HMAC-SHA256) are tabulated with their real values on the model's texts. *)
(*                                                                         *)
(* The font cache of the service worker (sw.js) has its own specification, *)
(* SpecSW, which reads kv as the CacheStorage, h as the fetch events in    *)
(* flight, call as the worker's life cycle and hist as what caches.keys()  *)
(* answered.                                                               *)
(***************************************************************************)
EXTENDS Integers, Sequences, FiniteSets, TLC

VARIABLES
    kv,       \* the KV namespace OAUTH_KV: key -> [value, exp] (Absent: no value)
    now,      \* the clock, in seconds
    issued,   \* the state tokens crypto.randomUUID() has returned so far
    h,        \* the GET /callback requests in flight, one per worker slot
    hist,     \* history: per state token, what its validations came to
    call,     \* the call or request last made: the inputs of a utility
              \* function, or a browser's request and its cookie jar
    ret       \* what the function returned (or threw), or the route answered

vars == <<kv, now, issued, h, hist, call, ret>>

NULL == "<null>"

\* ------------------------------------------------------------------ text

Ch(s, i) == SubSeq(s, i, i)

\* String.prototype.startsWith
StartsWith(s, prefix) ==
    /\ Len(prefix) <= Len(s)
    /\ SubSeq(s, 1, Len(prefix)) = prefix

\* String.prototype.substring(n): the text from 0-based index n on
Substring(s, n) == SubSeq(s, n + 1, Len(s))

IsSpace(c) == c \in {" ", "\t", "\n", "\r", "\f"}

\* String.prototype.trimStart, trimEnd and trim
TrimStart(s) ==
    IF \A i \in 1..Len(s) : IsSpace(Ch(s, i)) THEN ""
    ELSE SubSeq(s, CHOOSE i \in 1..Len(s) :
                       /\ ~IsSpace(Ch(s, i))
                       /\ \A j \in 1..(i - 1) : IsSpace(Ch(s, j)),
                Len(s))

TrimEnd(s) ==
    IF \A i \in 1..Len(s) : IsSpace(Ch(s, i)) THEN ""
    ELSE SubSeq(s, 1, CHOOSE i \in 1..Len(s) :
                          /\ ~IsSpace(Ch(s, i))
                          /\ \A j \in (i + 1)..Len(s) : IsSpace(Ch(s, j)))

Trim(s) == TrimEnd(TrimStart(s))

\* String.prototype.split(sep) for a one-character separator: the pieces
\* between the separators, in order ("" splits into one empty piece).
Split(s, sep) ==
    LET at     == {i \in 1..Len(s) : Ch(s, i) = sep}
        cut(k) == IF k = 0 THEN 0
                  ELSE IF k > Cardinality(at) THEN Len(s) + 1
                  ELSE CHOOSE i \in at : Cardinality({j \in at : j < i}) = k - 1
    IN  [k \in 1..(Cardinality(at) + 1) |-> SubSeq(s, cut(k - 1) + 1, cut(k) - 1)]

\* Array.prototype.map(c => c.trim())
MapTrim(pieces) == [i \in 1..Len(pieces) |-> Trim(pieces[i])]

\* Array.prototype.find(c => c.startsWith(prefix)): the first such piece,
\* NULL (undefined) when there is none.
FindStartsWith(pieces, prefix) ==
    IF \E i \in 1..Len(pieces) : StartsWith(pieces[i], prefix)
    THEN pieces[CHOOSE i \in 1..Len(pieces) :
                   /\ StartsWith(pieces[i], prefix)
                   /\ \A j \in 1..(i - 1) : ~StartsWith(pieces[j], prefix)]
    ELSE NULL

\* The value of cookie `name` as the utilities read it from a Cookie header
\* (NULL when the header holds no such cookie): split on ';', trim, take
\* the first piece starting with "name=", drop "name=".
CookieValue(cookieHeader, name) ==
    LET Value(found) == IF found = NULL THEN NULL ELSE Substring(found, Len(name) + 1)
    IN  Value(FindStartsWith(MapTrim(Split(cookieHeader, ";")), name \o "="))

\* ------------------------------------------------------------- hex, bytes

HexDigits == "0123456789abcdef"

HexDigit(n) == Ch(HexDigits, n + 1)

\* Number.prototype.toString(16) of a byte
ToString16(b) ==
    IF b < 16 THEN HexDigit(b) ELSE HexDigit(b \div 16) \o HexDigit(b % 16)

\* String.prototype.padStart(2, '0')
PadStart2(s) == IF Len(s) < 2 THEN "0" \o s ELSE s

\* hashArray.map(b => b.toString(16).padStart(2, '0')).join('')
RECURSIVE HexOfBytes(_)
HexOfBytes(bytes) ==
    IF bytes = <<>> THEN ""
    ELSE PadStart2(ToString16(Head(bytes))) \o HexOfBytes(Tail(bytes))

\* The value of one hex digit, either case; -1 when c is no hex digit.
HexValue(c) ==
    IF \E n \in 0..15 : HexDigit(n) = c
    THEN CHOOSE n \in 0..15 : HexDigit(n) = c
    ELSE IF c \in {"A", "B", "C", "D", "E", "F"}
         THEN CHOOSE n \in 10..15 :
                  <<"A", "B", "C", "D", "E", "F">>[n - 9] = c
         ELSE -1

\* The bytes a table literal (lower-case hex, two digits a byte) stands for.
RECURSIVE BytesOfLiteral(_)
BytesOfLiteral(lit) ==
    IF Len(lit) < 2 THEN <<>>
    ELSE <<16 * HexValue(Ch(lit, 1)) + HexValue(Ch(lit, 2))>>
         \o BytesOfLiteral(Substring(lit, 2))

\* ------------------------------------------------------------ JSON values
\* A JavaScript value that JSON can carry: a tagged record.

JStr(s)  == [t |-> "str", v |-> s]
JNum(n)  == [t |-> "num", v |-> n]
JLit(w)  == [t |-> "lit", v |-> w]           \* "null", "true", "false"
JArr(a)  == [t |-> "arr", v |-> a]           \* a sequence of values
JObj(m)  == [t |-> "obj", v |-> m]           \* a sequence of <<key, value>>

DecDigits == "0123456789"

IsDigit(c) == \E n \in 1..10 : Ch(DecDigits, n) = c

DigitValue(c) == (CHOOSE n \in 1..10 : Ch(DecDigits, n) = c) - 1

RECURSIVE ToDecimal(_)
ToDecimal(n) ==
    IF n < 10 THEN Ch(DecDigits, n + 1)
    ELSE ToDecimal(n \div 10) \o Ch(DecDigits, (n % 10) + 1)

\* JSON.stringify of a string: quoted, with '"' and '\' escaped.
RECURSIVE QuoteFrom(_, _)
QuoteFrom(s, i) ==
    IF i > Len(s) THEN ""
    ELSE (IF Ch(s, i) \in {"\"", "\\"} THEN "\\" \o Ch(s, i) ELSE Ch(s, i))
         \o QuoteFrom(s, i + 1)

Quote(s) == "\"" \o QuoteFrom(s, 1) \o "\""

\* JSON.stringify (no indentation)
RECURSIVE JSONstringify(_)
RECURSIVE StringifyElems(_, _)
RECURSIVE StringifyMembers(_, _)
JSONstringify(x) ==
    CASE x.t = "str" -> Quote(x.v)
      [] x.t = "num" -> IF x.v < 0 THEN "-" \o ToDecimal(-x.v) ELSE ToDecimal(x.v)
      [] x.t = "lit" -> x.v
      [] x.t = "arr" -> "[" \o StringifyElems(x.v, 1) \o "]"
      [] x.t = "obj" -> "{" \o StringifyMembers(x.v, 1) \o "}"

StringifyElems(a, i) ==
    IF i > Len(a) THEN ""
    ELSE (IF i > 1 THEN "," ELSE "") \o JSONstringify(a[i])
         \o StringifyElems(a, i + 1)

StringifyMembers(m, i) ==
    IF i > Len(m) THEN ""
    ELSE (IF i > 1 THEN "," ELSE "") \o Quote(m[i][1]) \o ":"
         \o JSONstringify(m[i][2]) \o StringifyMembers(m, i + 1)

\* JSON.parse, by recursive descent.  A parse step returns
\* [ok |-> TRUE, val |-> value, next |-> index after it] or [ok |-> FALSE].
\* Covered: objects, arrays, strings with the escapes \" \\ \/, integers,
\* the three literals, and white space between tokens.
Fail == [ok |-> FALSE]

RECURSIVE SkipWs(_, _)
SkipWs(s, i) ==
    IF i <= Len(s) /\ Ch(s, i) \in {" ", "\t", "\n", "\r"}
    THEN SkipWs(s, i + 1)
    ELSE i

RECURSIVE ParseString(_, _, _)
ParseString(s, i, acc) ==
    IF i > Len(s) THEN Fail
    ELSE IF Ch(s, i) = "\"" THEN [ok |-> TRUE, val |-> JStr(acc), next |-> i + 1]
    ELSE IF Ch(s, i) = "\\"
         THEN IF i + 1 <= Len(s) /\ Ch(s, i + 1) \in {"\"", "\\", "/"}
              THEN ParseString(s, i + 2, acc \o Ch(s, i + 1))
              ELSE Fail
    ELSE ParseString(s, i + 1, acc \o Ch(s, i))

RECURSIVE ParseDigits(_, _, _)
ParseDigits(s, i, acc) ==
    IF i <= Len(s) /\ IsDigit(Ch(s, i))
    THEN ParseDigits(s, i + 1, 10 * acc + DigitValue(Ch(s, i)))
    ELSE [ok |-> TRUE, val |-> JNum(acc), next |-> i]

ParseNumber(s, i) ==
    LET neg   == Ch(s, i) = "-"
        start == IF neg THEN i + 1 ELSE i
        Signed(r) ==
            IF r.next <= Len(s) /\ Ch(s, r.next) \in {".", "e", "E"}
            THEN Fail
            ELSE [r EXCEPT !.val = JNum(IF neg THEN -r.val.v ELSE r.val.v)]
    IN  IF start > Len(s) \/ ~IsDigit(Ch(s, start)) THEN Fail
        ELSE IF Ch(s, start) = "0" /\ start < Len(s) /\ IsDigit(Ch(s, start + 1))
             THEN Fail
        ELSE Signed(ParseDigits(s, start, 0))

\* whether text w stands in s at index i
At(s, i, w) == i + Len(w) - 1 <= Len(s) /\ SubSeq(s, i, i + Len(w) - 1) = w

ParseLiteral(s, i) ==
    IF \E w \in {"null", "true", "false"} : At(s, i, w)
    THEN LET w == CHOOSE w \in {"null", "true", "false"} : At(s, i, w)
         IN  [ok |-> TRUE, val |-> JLit(w), next |-> i + Len(w)]
    ELSE Fail

RECURSIVE ParseValue(_, _)
RECURSIVE ParseElems(_, _, _)
RECURSIVE ParseMembers(_, _, _)
ParseValue(s, i0) ==
    LET Opened(i, j) ==
            CASE Ch(s, i) = "\"" -> ParseString(s, i + 1, "")
              [] Ch(s, i) = "[" ->
                   IF j <= Len(s) /\ Ch(s, j) = "]"
                   THEN [ok |-> TRUE, val |-> JArr(<<>>), next |-> j + 1]
                   ELSE ParseElems(s, i + 1, <<>>)
              [] Ch(s, i) = "{" ->
                   IF j <= Len(s) /\ Ch(s, j) = "}"
                   THEN [ok |-> TRUE, val |-> JObj(<<>>), next |-> j + 1]
                   ELSE ParseMembers(s, i + 1, <<>>)
              [] Ch(s, i) = "-" \/ IsDigit(Ch(s, i)) -> ParseNumber(s, i)
              [] OTHER -> ParseLiteral(s, i)
        Value(i) == IF i > Len(s) THEN Fail ELSE Opened(i, SkipWs(s, i + 1))
    IN  Value(SkipWs(s, i0))

\* the elements of an array after '[' or ','
ParseElems(s, i, acc) ==
    LET After(elems, j) ==
            IF j > Len(s) THEN Fail
            ELSE IF Ch(s, j) = "]"
                 THEN [ok |-> TRUE, val |-> JArr(elems), next |-> j + 1]
            ELSE IF Ch(s, j) = "," THEN ParseElems(s, j + 1, elems)
            ELSE Fail
        Elem(r) == IF ~r.ok THEN Fail
                   ELSE After(Append(acc, r.val), SkipWs(s, r.next))
    IN  Elem(ParseValue(s, i))

\* the members of an object after '{' or ','
ParseMembers(s, i, acc) ==
    LET After(mem, j) ==
            IF j > Len(s) THEN Fail
            ELSE IF Ch(s, j) = "}"
                 THEN [ok |-> TRUE, val |-> JObj(mem), next |-> j + 1]
            ELSE IF Ch(s, j) = "," THEN ParseMembers(s, j + 1, mem)
            ELSE Fail
        Valued(key, r) ==
            IF ~r.ok THEN Fail
            ELSE After(Append(acc, <<key.val.v, r.val>>), SkipWs(s, r.next))
        Colon(key, c) ==
            IF c > Len(s) \/ Ch(s, c) # ":" THEN Fail
            ELSE Valued(key, ParseValue(s, c + 1))
        Keyed(key) == IF ~key.ok THEN Fail ELSE Colon(key, SkipWs(s, key.next))
        Member0(k) == IF k > Len(s) \/ Ch(s, k) # "\"" THEN Fail
                      ELSE Keyed(ParseString(s, k + 1, ""))
    IN  Member0(SkipWs(s, i))

\* JSON.parse: [ok |-> TRUE, val |-> value], or [ok |-> FALSE] where
\* JSON.parse throws a SyntaxError.
JSONparse(s) ==
    LET Whole(r) == IF r.ok /\ SkipWs(s, r.next) > Len(s)
                    THEN [ok |-> TRUE, val |-> r.val]
                    ELSE Fail
    IN  Whole(ParseValue(s, 1))

JUndefined == JLit("undefined")

\* obj.key of a parsed value: undefined when x is no object or has no such
\* member; the last member wins when a key is repeated.
Member(x, key) ==
    IF x.t = "obj" /\ \E i \in 1..Len(x.v) : x.v[i][1] = key
    THEN x.v[CHOOSE i \in 1..Len(x.v) :
                 /\ x.v[i][1] = key
                 /\ \A j \in (i + 1)..Len(x.v) : x.v[j][1] # key][2]
    ELSE JUndefined

\* JavaScript's !x for a value
JsFalsy(x) ==
    \/ x.t = "lit" /\ x.v \in {"undefined", "null", "false"}
    \/ x.t = "str" /\ x.v = ""
    \/ x.t = "num" /\ x.v = 0

\* ---------------------------------------------------------------- base64

\* The characters of code 32..95 and of code 97..126, in order (a TLA+
\* string cannot hold the character of code 96).
Printable ==
    " !\"#$%&'()*+,-./0123456789:;<=>?@ABCDEFGHIJKLMNOPQRSTUVWXYZ[\\]^_"

PrintableHigh == "abcdefghijklmnopqrstuvwxyz{|}~"

\* String.prototype.charCodeAt
Ord(c) ==
    IF \E n \in 1..Len(Printable) : Ch(Printable, n) = c
    THEN 31 + CHOOSE n \in 1..Len(Printable) : Ch(Printable, n) = c
    ELSE 96 + CHOOSE n \in 1..Len(PrintableHigh) : Ch(PrintableHigh, n) = c

\* String.fromCharCode
Chr(n) == IF n < 96 THEN Ch(Printable, n - 31) ELSE Ch(PrintableHigh, n - 96)

B64 == "ABCDEFGHIJKLMNOPQRSTUVWXYZabcdefghijklmnopqrstuvwxyz0123456789+/"

B64Char(n) == Ch(B64, n + 1)

IsB64(c) == \E n \in 1..64 : Ch(B64, n) = c

B64Value(c) == (CHOOSE n \in 1..64 : Ch(B64, n) = c) - 1

\* btoa: three characters (bytes) to four, '=' padding at the end.
RECURSIVE btoa(_)
btoa(s) ==
    IF Len(s) = 0 THEN ""
    ELSE IF Len(s) = 1
         THEN LET a == Ord(Ch(s, 1))
              IN  B64Char(a \div 4) \o B64Char((a % 4) * 16) \o "=="
    ELSE IF Len(s) = 2
         THEN LET a == Ord(Ch(s, 1))
                  b == Ord(Ch(s, 2))
              IN  B64Char(a \div 4) \o B64Char((a % 4) * 16 + b \div 16)
                  \o B64Char((b % 16) * 4) \o "="
    ELSE LET a == Ord(Ch(s, 1))
             b == Ord(Ch(s, 2))
             c == Ord(Ch(s, 3))
         IN  B64Char(a \div 4) \o B64Char((a % 4) * 16 + b \div 16)
             \o B64Char((b % 16) * 4 + c \div 64) \o B64Char(c % 64)
             \o btoa(Substring(s, 3))

\* the text without its ASCII white space
RECURSIVE StripWs(_)
StripWs(s) ==
    IF \A i \in 1..Len(s) : ~IsSpace(Ch(s, i)) THEN s
    ELSE LET i == CHOOSE i \in 1..Len(s) : IsSpace(Ch(s, i))
         IN  StripWs(SubSeq(s, 1, i - 1) \o SubSeq(s, i + 1, Len(s)))

\* the data of a base64 text without its padding
RECURSIVE B64Decode(_)
B64Decode(s) ==
    IF Len(s) = 0 THEN ""
    ELSE LET a == B64Value(Ch(s, 1))
             b == B64Value(Ch(s, 2))
         IN  IF Len(s) = 2 THEN Chr(a * 4 + b \div 16)
             ELSE LET c == B64Value(Ch(s, 3))
                  IN  IF Len(s) = 3
                      THEN Chr(a * 4 + b \div 16) \o Chr((b % 16) * 16 + c \div 4)
                      ELSE Chr(a * 4 + b \div 16) \o Chr((b % 16) * 16 + c \div 4)
                           \o Chr((c % 4) * 64 + B64Value(Ch(s, 4)))
                           \o B64Decode(Substring(s, 4))

\* atob (forgiving-base64 decode): [ok |-> TRUE, val |-> text], or
\* [ok |-> FALSE] where atob throws InvalidCharacterError.
atob(s0) ==
    LET Unpadded(s1) ==
            IF Len(s1) % 4 = 0 /\ Len(s1) > 0 /\ Ch(s1, Len(s1)) = "="
            THEN IF Ch(s1, Len(s1) - 1) = "="
                 THEN SubSeq(s1, 1, Len(s1) - 2)
                 ELSE SubSeq(s1, 1, Len(s1) - 1)
            ELSE s1
        Decoded(s) ==
            IF Len(s) % 4 = 1 \/ \E i \in 1..Len(s) : ~IsB64(Ch(s, i))
            THEN Fail
            ELSE [ok |-> TRUE, val |-> B64Decode(s)]
    IN  Decoded(Unpadded(StripWs(s0)))

\* --------------------------------------------------------------- digests
\* crypto.subtle.digest('SHA-256', .) and crypto.subtle.sign('HMAC', ., .)
\* on the texts of the model, as lower-case hex literals.

Sha256Table(s) ==
    CASE s = "t0" -> "512f26ada3c3d634ac3c6b12b7b33cb50bb0963c3f6d9924241619c84ec78ff2"
      [] s = "t1" -> "628b49d96dcde97a430dd4f597705899e09a968f793491e4b704cae33a40dc02"
      [] s = "t2" -> "c44474038d459e40e4714afefa7bf8dae9f9834b22f5e8ec1dd434ecb62b512e"
      [] s = "t3" -> "cece8a9cecfb6c7e7ee4f3346d5e2544138bfb6e33bec6042a17333a4d3180b0"

\* crypto.subtle.digest('SHA-256', encoder.encode(s)): the 32 bytes
Sha256(s) == BytesOfLiteral(Sha256Table(s))

HmacSha256Table(secret, data) ==
    CASE secret = "s1" /\ data = "[]" -> "575f65ce6fd1da3337f01ad90fbbdba9489375eb1e670344949987070655f484"
      [] secret = "s1" /\ data = "[\"c1\"]" -> "d699cc800a812838ec55863c6bd6ef71513a5a12e0142a9428f31288749e3694"
      [] secret = "s1" /\ data = "[\"c2\"]" -> "aabfba7653df1811b49aef0688b58a6785b79b1056d245d54c18f720665926c9"
      [] secret = "s1" /\ data = "[\"c3\"]" -> "8835f0c9c5734a1d374ac3193bdad7fed2bfba47ac7d28090f1434a035b45d9c"
      [] secret = "s1" /\ data = "[\"c1\",\"c2\"]" -> "61417aaf784301b549fabf04912c1d9e722bed119b4cf19c572dd575c008b69a"
      [] secret = "s1" /\ data = "[\"c1\",\"c3\"]" -> "16f93929c75b05cac124a6043c95cb6c4e074db6daf076d4a5b4b8f2efd0c40a"
      [] secret = "s1" /\ data = "[\"c2\",\"c1\"]" -> "ba163a548627fc23a4d8bca4c84f82de1b5e3a7341245b9cbbdde848bb671c0f"
      [] secret = "s1" /\ data = "[\"c2\",\"c3\"]" -> "a23a58ec4049386f66dcf2fdc5390a60dd5f806fe1f5ecd9979023b760b35dfe"
      [] secret = "s1" /\ data = "[\"c3\",\"c1\"]" -> "05cfba7b00d51ca68852aa880f31005516fc66d3e159db0d3746ee1064ff150c"
      [] secret = "s1" /\ data = "[\"c3\",\"c2\"]" -> "1a0a3156dd56949e9cdac2d9c8a2bf8d36fa987b258792944219a9191e978528"
      [] secret = "s1" /\ data = "[\"c1\",\"c2\",\"c3\"]" -> "02e5adbbddbb26e2e638660faf7607a0851d171756e4701c5151d3061e871b01"
      [] secret = "s1" /\ data = "[\"c1\",\"c3\",\"c2\"]" -> "fd3b2e487b9796ea2109bee3e3de055c52cae22b930e1e59c9d8dd6527eddc76"
      [] secret = "s1" /\ data = "[\"c2\",\"c1\",\"c3\"]" -> "2fb03d749d6f214f8877960c52a6e20890a354bb27b909b8009ffe19c11899a7"
      [] secret = "s1" /\ data = "[\"c2\",\"c3\",\"c1\"]" -> "525208aff9ee008d8d2dd3e37bbb5b3ff6aa00fd6e97dbf186ab106243509506"
      [] secret = "s1" /\ data = "[\"c3\",\"c1\",\"c2\"]" -> "d3db2c7ba788515fc64244c7df69e9997765636c8252aa4690cd5bb2c39b1b98"
      [] secret = "s1" /\ data = "[\"c3\",\"c2\",\"c1\"]" -> "92a7408e69da4bc559a4aa82802ae6a85a0ba0eb0ce53bd392bf70ee6530698c"
      [] secret = "s1" /\ data = "[\"a\\\".b;c=\\\\d e\"]" -> "1f86f78e55474a58629b8f6ff990b522cc8d8cc59f16911dba593910a877b709"
      [] secret = "s1" /\ data = "[\"c1\",\"a\\\".b;c=\\\\d e\"]" -> "1c9aa1fc2f377258cacfec6fe663e02c5af8e5e946c5c315e6ad6522529597ab"
      [] secret = "s1" /\ data = "[\"c2\",\"a\\\".b;c=\\\\d e\"]" -> "f96e537e9739024aa2ab787f4bf12cb7ddd40eeb7a6439492b8f350733dcf0ee"
      [] secret = "s1" /\ data = "[\"c3\",\"a\\\".b;c=\\\\d e\"]" -> "b6a5e475faef1723541e4c90c72a662e8d2f6131f5196110d6777eeb935c9550"
      [] secret = "s1" /\ data = "[\"a\\\".b;c=\\\\d e\",\"c1\"]" -> "b332a0a7695f62f7f7d1cbdeb47a829d8b25b0d68db0162cc855f4e704d33eb7"
      [] secret = "s1" /\ data = "[\"a\\\".b;c=\\\\d e\",\"c2\"]" -> "1b3b94ccc0a8336bf031072d017fd67d4f7b03df3bb98878f0c6bb31272741f7"
      [] secret = "s1" /\ data = "[\"a\\\".b;c=\\\\d e\",\"c3\"]" -> "06f2ecca2f3f2adfb440e541862edbfd6edf82d49ff1a0e69987fcc84400b70d"
      [] secret = "s1" /\ data = "[\"c1\",\"c2\",\"a\\\".b;c=\\\\d e\"]" -> "1bb6b524a8ec6fc826658edd1def862cce4ccce5d40adf1cfcf39e4e151a8bd8"
      [] secret = "s1" /\ data = "[\"c1\",\"c3\",\"a\\\".b;c=\\\\d e\"]" -> "9d8177aecf2f9ab4fb913054259d6fb893e37b9010aae4dbf40d32d44306c8c8"
      [] secret = "s1" /\ data = "[\"c1\",\"a\\\".b;c=\\\\d e\",\"c2\"]" -> "071f93ae991eaab28aabcb3f503e4e67e6abeae3fde5c34345897f06793c96b5"
      [] secret = "s1" /\ data = "[\"c1\",\"a\\\".b;c=\\\\d e\",\"c3\"]" -> "7997937590835e60548bd4ab2237288dcf61897f82486097c235185a8313b49a"
      [] secret = "s1" /\ data = "[\"c2\",\"c1\",\"a\\\".b;c=\\\\d e\"]" -> "cf508179464baf848311ea6b47887e0879f8db6ccfa99d30fa1e1f45b8fce311"
      [] secret = "s1" /\ data = "[\"c2\",\"c3\",\"a\\\".b;c=\\\\d e\"]" -> "31059316936a6b012ee4f9396e8244e5cfada7e027a3cfab1e46a7753dfce724"
      [] secret = "s1" /\ data = "[\"c2\",\"a\\\".b;c=\\\\d e\",\"c1\"]" -> "859671ac42e843c57b34c6cd5daec2d1d0e524f3f8b145c74efbb3f445601b04"
      [] secret = "s1" /\ data = "[\"c2\",\"a\\\".b;c=\\\\d e\",\"c3\"]" -> "7f7ce359981dddb639782cda99e724937a3c7dc73748b842fcf0061c9ab96149"
      [] secret = "s1" /\ data = "[\"c3\",\"c1\",\"a\\\".b;c=\\\\d e\"]" -> "10f079103f52e36f88b2065da89ee12ece5e260530f0748091bcffbc0633dc40"
      [] secret = "s1" /\ data = "[\"c3\",\"c2\",\"a\\\".b;c=\\\\d e\"]" -> "8ce4639972b15f7d32a14ce2738eb75f924972070bd872916cd42308b116cfa6"
      [] secret = "s1" /\ data = "[\"c3\",\"a\\\".b;c=\\\\d e\",\"c1\"]" -> "c6f0b444367c9f4854d230b076033cd3e36509bbe9fadb27cc0899b421310731"
      [] secret = "s1" /\ data = "[\"c3\",\"a\\\".b;c=\\\\d e\",\"c2\"]" -> "c0ab13643d1b427746decdb7cc8ce30889a6a9d70e5e643551c399dde35dc485"
      [] secret = "s1" /\ data = "[\"a\\\".b;c=\\\\d e\",\"c1\",\"c2\"]" -> "9795f9d630c387bffbf97f5f412d6579be10c8cfd6a243da26575c4dc641761b"
      [] secret = "s1" /\ data = "[\"a\\\".b;c=\\\\d e\",\"c1\",\"c3\"]" -> "24fbf46bdc9d872dd8acdafaee08bb5d9656d8ac1007a1c24cd393ca9010cc8a"
      [] secret = "s1" /\ data = "[\"a\\\".b;c=\\\\d e\",\"c2\",\"c1\"]" -> "a78b6cc22e14b946fcb9a08b96a22e9fd8d6ee48f4a71525399bb466fc0d18aa"
      [] secret = "s1" /\ data = "[\"a\\\".b;c=\\\\d e\",\"c2\",\"c3\"]" -> "ab242489f7c064ffd8cf6eeb3370c798c16067559802544926cd2b68c1821c7c"
      [] secret = "s1" /\ data = "[\"a\\\".b;c=\\\\d e\",\"c3\",\"c1\"]" -> "5e7359822aa2e72e5662573725865ec5165db61c52160f88331d56d146793c63"
      [] secret = "s1" /\ data = "[\"a\\\".b;c=\\\\d e\",\"c3\",\"c2\"]" -> "3a87a0f0b7866f465a5107dc760ee1479652965f3f0f89d1d24e3a0f75b6c69a"
      [] secret = "s1" /\ data = "[\"c1\",\"c2\",\"c3\",\"a\\\".b;c=\\\\d e\"]" -> "a676d8f909ebfc71c11e07ceb9d56d3361d22bf97a2e5400bbfe011ce946987c"
      [] secret = "s1" /\ data = "[\"c1\",\"c2\",\"a\\\".b;c=\\\\d e\",\"c3\"]" -> "9c33c350037455b7530fb6a307d09c77ad72a711571340a309e117f7bca8979c"
      [] secret = "s1" /\ data = "[\"c1\",\"c3\",\"c2\",\"a\\\".b;c=\\\\d e\"]" -> "47f8fe136563d9a98c674279a480b5554ae900a463251d79532bdeaae2a7a068"
      [] secret = "s1" /\ data = "[\"c1\",\"c3\",\"a\\\".b;c=\\\\d e\",\"c2\"]" -> "6b507ded6a6f7b1c74f5a4cbbfa01f8529219c21f0125b66e0601dc14304962a"
      [] secret = "s1" /\ data = "[\"c1\",\"a\\\".b;c=\\\\d e\",\"c2\",\"c3\"]" -> "b9d7e90e4dc8d0c6f66e664ba9b70d2ac83ba34e61e9e3d5a3932a586196abab"
      [] secret = "s1" /\ data = "[\"c1\",\"a\\\".b;c=\\\\d e\",\"c3\",\"c2\"]" -> "5be681457dd4e38e431b7e1f00411d0ec86fae16268231283b03c1690d7aa635"
      [] secret = "s1" /\ data = "[\"c2\",\"c1\",\"c3\",\"a\\\".b;c=\\\\d e\"]" -> "8d652a1a7f02f7d6b3fb402584e843895b693d64b07ca1fa740de21333acaeb0"
      [] secret = "s1" /\ data = "[\"c2\",\"c1\",\"a\\\".b;c=\\\\d e\",\"c3\"]" -> "dfc42c198731852dab9ff16ad20585f66dbca44f2e654abb48e1308ad2682b96"
      [] secret = "s1" /\ data = "[\"c2\",\"c3\",\"c1\",\"a\\\".b;c=\\\\d e\"]" -> "67df118ed8c24b3f31784262055f0ab824683279e729f99a57c38843c9b4d823"
      [] secret = "s1" /\ data = "[\"c2\",\"c3\",\"a\\\".b;c=\\\\d e\",\"c1\"]" -> "50c7507460e900fb179d730f03e330da271cc56a30383c4465268503f79edb5b"
      [] secret = "s1" /\ data = "[\"c2\",\"a\\\".b;c=\\\\d e\",\"c1\",\"c3\"]" -> "d544e6cd0a3d2e689bb594bc55cd78a1d5e93a0b29e20dbe585752b4be6216d6"
      [] secret = "s1" /\ data = "[\"c2\",\"a\\\".b;c=\\\\d e\",\"c3\",\"c1\"]" -> "08cc5bbbe5b15ed5cbe5b5240171c79bfc35b90deed68f64db0d10b383c23b5a"
      [] secret = "s1" /\ data = "[\"c3\",\"c1\",\"c2\",\"a\\\".b;c=\\\\d e\"]" -> "7408ccd6cab26da867daf139733f86252d58754233eda381f61c53c03a7aa051"
      [] secret = "s1" /\ data = "[\"c3\",\"c1\",\"a\\\".b;c=\\\\d e\",\"c2\"]" -> "ee189995791769f4c03a1d6b4ef29cf40b291071a124450021766e288b4582f3"
      [] secret = "s1" /\ data = "[\"c3\",\"c2\",\"c1\",\"a\\\".b;c=\\\\d e\"]" -> "90d84bc8f144b6780612f374ed215074e7c4c70517ad0389af52777c5ea43723"
      [] secret = "s1" /\ data = "[\"c3\",\"c2\",\"a\\\".b;c=\\\\d e\",\"c1\"]" -> "dbd7746944a0ea427f58e7f885fdcce52dd8f2fb7b7544ad7cced231ae3510b0"
      [] secret = "s1" /\ data = "[\"c3\",\"a\\\".b;c=\\\\d e\",\"c1\",\"c2\"]" -> "3ce743bddd471b2acd9073c1ef14527ee02d2c5fdd64334bcfaa05ebf658e7f1"
      [] secret = "s1" /\ data = "[\"c3\",\"a\\\".b;c=\\\\d e\",\"c2\",\"c1\"]" -> "18d23cc0b89ddef1e884a385738ab43d8ef5a72189f64521cb4fb6407b49e722"
      [] secret = "s1" /\ data = "[\"a\\\".b;c=\\\\d e\",\"c1\",\"c2\",\"c3\"]" -> "0c39017485ab5ac72b470d4f2c4d0bb1fb7da5b1d15cde1367f1d867a63f41f8"
      [] secret = "s1" /\ data = "[\"a\\\".b;c=\\\\d e\",\"c1\",\"c3\",\"c2\"]" -> "daf97fb69c89acd3d873fabf2d475d8bca09630b0fc93016d898f8c199539d08"
      [] secret = "s1" /\ data = "[\"a\\\".b;c=\\\\d e\",\"c2\",\"c1\",\"c3\"]" -> "87449c841233d770fbdf896bd006dd10ecb474a88ba7500f7b8ed0bc23892b31"
      [] secret = "s1" /\ data = "[\"a\\\".b;c=\\\\d e\",\"c2\",\"c3\",\"c1\"]" -> "fda82f1a196b8c9429ad9fdfee8c63b6b5cfc100f60edcd01666e9bde93d2fbe"
      [] secret = "s1" /\ data = "[\"a\\\".b;c=\\\\d e\",\"c3\",\"c1\",\"c2\"]" -> "7b05cbc2b1e45e076480bcff080609a8e59be569faa535dc6cd41ee62c7c6b6d"
      [] secret = "s1" /\ data = "[\"a\\\".b;c=\\\\d e\",\"c3\",\"c2\",\"c1\"]" -> "9c6963a22f94eb87bc604bb7eebd97ea60813219a24c29c29cddfaf698a328e1"
      [] secret = "s1" /\ data = "[\"c1\",\"c1\"]" -> "52c8518ec058a6336a6533f8a5fe722e54d43c5615494542cd20dcd53464726b"
      [] secret = "s1" /\ data = "{\"a\":\"c1\"}" -> "8123baf5432ca038bd74cd5e7fead0593dfe43320779035b14a6680250e538b9"
      [] secret = "s1" /\ data = "\"c1\"" -> "396a2c698085aa03ef8fb03d74162498cd723a495feecf0f8b539116bd97d5dc"
      [] secret = "s1" /\ data = "[1]" -> "6c4e47fe118dd0b32a6e207e9c71153e046955151e7c07813e28d85fc48a5d80"
      [] secret = "s1" /\ data = "[\"c1\",7]" -> "8ca323308cc02e6b3dd5a8e1833e876d6baa00dff27c7c6b63cdff13eeffc029"
      [] secret = "s1" /\ data = "null" -> "0b556e86f0a2bfcdf6dde8ad4b7b4993ada542dccada72e71d8ff54c5fa1a34a"
      [] secret = "s1" /\ data = "[\"c1\"" -> "fd0db6c5641322afd18b7d2aeca6f180b29b9e594385ec2a4fd70c25c3d05afe"
      [] secret = "s1" /\ data = "" -> "9f0830d3bbdad1ddeb10a01600d81e9262fdce36eddf34a28a194e4a40ab9a29"
      [] secret = "s1" /\ data = "[ \"c1\" ]" -> "c85240ea01346f29fa0aabccf3462855713d382cff4d0b616770d71653947b36"
      [] secret = "s1" /\ data = "[[\"c1\"]]" -> "fc285dcf87aa0ce9a8c0d522af68670c4fed4848a4b0ce89588b0d4feda3e1a6"
      [] secret = "s2" /\ data = "[]" -> "bcfcc27c3cbb8a9f54ee1204f01f7277beba5878d8e669229779d833d811d68b"
      [] secret = "s2" /\ data = "[\"c1\"]" -> "2c40b4ac8bdc6858fa3fcc090d7cdb2cb734cfd4984360fee4b491651dc7bec8"
      [] secret = "s2" /\ data = "[\"c2\"]" -> "e3b36c26bcb957ceda1022062be98c137e5a53f4e79b1affeee1c9bd53ed1fee"
      [] secret = "s2" /\ data = "[\"c3\"]" -> "9a984ad4e8403cbe2cf8bac4f8a4d73e14418a8adc6b15fe416875e21c96cea7"
      [] secret = "s2" /\ data = "[\"c1\",\"c2\"]" -> "840bcdead66512afac64e8586af0de9e48c4e77b983ba078c672cda16fbed745"
      [] secret = "s2" /\ data = "[\"c1\",\"c3\"]" -> "491ec130cbc4d0c9cde44ae2af4cd7b6137b83fb820920759c248af126615966"
      [] secret = "s2" /\ data = "[\"c2\",\"c1\"]" -> "83a4a2b05730502e447dd3531f56f755491d817b8a42dbd419367656caa64342"
      [] secret = "s2" /\ data = "[\"c2\",\"c3\"]" -> "34326b5e9cbc319914910d8083cb364a40e07336766e19850e41b3075c85258d"
      [] secret = "s2" /\ data = "[\"c3\",\"c1\"]" -> "482682658dec0dfd1b2d0c809ad89d7cf0454be40e88797d373c8a782db74439"
      [] secret = "s2" /\ data = "[\"c3\",\"c2\"]" -> "73d1a2fd58550e21eb6927afcf96a989d117df2f345ac4ed6027c8ba8f94ec38"
      [] secret = "s2" /\ data = "[\"c1\",\"c2\",\"c3\"]" -> "e979179aafa48d3d5077c226f8dd16ef9c0835a86efa4a78b49b90bf56191ea8"
      [] secret = "s2" /\ data = "[\"c1\",\"c3\",\"c2\"]" -> "80baa55a6c536c8b6659ef1ae46ffcf72871a25f46a83c4064bd8ffc01fd01fd"
      [] secret = "s2" /\ data = "[\"c2\",\"c1\",\"c3\"]" -> "9e6cfa6af8da241f26a3ca06e296668762889b7493cdb1b24627a2d43835b12a"
      [] secret = "s2" /\ data = "[\"c2\",\"c3\",\"c1\"]" -> "7faf270f92cba00314be6e0a21623f903ae363d78d5ffa1ff7ab32fb906c29e9"
      [] secret = "s2" /\ data = "[\"c3\",\"c1\",\"c2\"]" -> "d72d69ec2873ac446d66a24ed1355485a5a1b12240a62f0bad497bd5a9242162"
      [] secret = "s2" /\ data = "[\"c3\",\"c2\",\"c1\"]" -> "afefae76d1d5c3740f3e9f3f02aa6ffe139ccc3ed9915cf0ca840cc9d0d87791"
      [] secret = "s2" /\ data = "[\"a\\\".b;c=\\\\d e\"]" -> "6e17bc51c83e0fe340d587fa955663f6d48a7745c42271784465359028784ba1"
      [] secret = "s2" /\ data = "[\"c1\",\"a\\\".b;c=\\\\d e\"]" -> "5ad40ec61b471520ea0f5bb3369fb6a28029b36a2c1232cf7f1008fd6be89d83"
      [] secret = "s2" /\ data = "[\"c2\",\"a\\\".b;c=\\\\d e\"]" -> "b403d1fca9c8082ef5c98bad859e438e45cce5e1142f41c0643d76b59a9def6a"
      [] secret = "s2" /\ data = "[\"c3\",\"a\\\".b;c=\\\\d e\"]" -> "4ea594a7203e268b0bc22ce833cc395632e787218fe7b30d56e3ae385b20a01e"
      [] secret = "s2" /\ data = "[\"a\\\".b;c=\\\\d e\",\"c1\"]" -> "8930edde0a579cd606f8659d45171a6431e6da4c9d000551a4381206c6f3c108"
      [] secret = "s2" /\ data = "[\"a\\\".b;c=\\\\d e\",\"c2\"]" -> "b7a8e96b527fae307071f917994f6e2b6e4cb467141b4d74b7bd42f163575e4e"
      [] secret = "s2" /\ data = "[\"a\\\".b;c=\\\\d e\",\"c3\"]" -> "b8a9f4217a81681f9796dd9c93171af7914e7f056b65f207303afd35814a8811"
      [] secret = "s2" /\ data = "[\"c1\",\"c2\",\"a\\\".b;c=\\\\d e\"]" -> "2872c87bcbd103c7bacb4e24c8b954176d2346b6002f79ac6055fe86b05a7c90"
      [] secret = "s2" /\ data = "[\"c1\",\"c3\",\"a\\\".b;c=\\\\d e\"]" -> "e128a4d9e65c9f2fd4c756212ce0c06aa5a88feb7034e445421c9a6feba7b9a6"
      [] secret = "s2" /\ data = "[\"c1\",\"a\\\".b;c=\\\\d e\",\"c2\"]" -> "19fc5876a3b595a8a853dd6afe7f056490fb16bb800e8580045e75711e32703a"
      [] secret = "s2" /\ data = "[\"c1\",\"a\\\".b;c=\\\\d e\",\"c3\"]" -> "157f9da9ffba3ce796ff09e495f4f8c81a24bc4b00815affc2aaa22ef81cb97c"
      [] secret = "s2" /\ data = "[\"c2\",\"c1\",\"a\\\".b;c=\\\\d e\"]" -> "4fbcd107d8951d50b89ae5385d0fa1b4186d32ef6b435968c9de15c00d4e41de"
      [] secret = "s2" /\ data = "[\"c2\",\"c3\",\"a\\\".b;c=\\\\d e\"]" -> "009e03dee214648dd8bd3d8dd8e89ff558d8beb597795ef0f05e4ae9667a79f1"
      [] secret = "s2" /\ data = "[\"c2\",\"a\\\".b;c=\\\\d e\",\"c1\"]" -> "b28c4cef1cf6dbe1898d197ca706053d77ce6a650273ff0ee11198681bb57344"
      [] secret = "s2" /\ data = "[\"c2\",\"a\\\".b;c=\\\\d e\",\"c3\"]" -> "fc7301de52e01024ad8370e20319dbec0c63796f60743da12c64d67e744bc8de"
      [] secret = "s2" /\ data = "[\"c3\",\"c1\",\"a\\\".b;c=\\\\d e\"]" -> "ba053947a31f27bf0bdfdd3782fc4b3ef85b31bed46d0658fde02d0a283f17cb"
      [] secret = "s2" /\ data = "[\"c3\",\"c2\",\"a\\\".b;c=\\\\d e\"]" -> "6b659ce3a6c8c56fc038cd476d3d01e2970a2b20a9d4b17b6cccfe4b1e995f6a"
      [] secret = "s2" /\ data = "[\"c3\",\"a\\\".b;c=\\\\d e\",\"c1\"]" -> "f690e55c241feeb3f89bd63fbeface5661c6b672dd70543e720476329f11bcf1"
      [] secret = "s2" /\ data = "[\"c3\",\"a\\\".b;c=\\\\d e\",\"c2\"]" -> "189cc0dd4f4e8169bb626e7923ab47d0d045101b273d2fd043a6fd1dd9053fed"
      [] secret = "s2" /\ data = "[\"a\\\".b;c=\\\\d e\",\"c1\",\"c2\"]" -> "cc474a6b395b01d86d87e8517891540b9e8eb79e379647eb490a004f11ce1ab5"
      [] secret = "s2" /\ data = "[\"a\\\".b;c=\\\\d e\",\"c1\",\"c3\"]" -> "fc72ffa182541f6b37a1a56749acd07f8aa896d73e474ee838c340c7f0e109ac"
      [] secret = "s2" /\ data = "[\"a\\\".b;c=\\\\d e\",\"c2\",\"c1\"]" -> "895958937a32fe8139207e4b20d448376455b0dfc8ee9139442fdfe2c0774ed2"
      [] secret = "s2" /\ data = "[\"a\\\".b;c=\\\\d e\",\"c2\",\"c3\"]" -> "319d026650ca9d30fdf691a3dc59c86894788d9a1fa968a145a3178f955d4812"
      [] secret = "s2" /\ data = "[\"a\\\".b;c=\\\\d e\",\"c3\",\"c1\"]" -> "da624f1e949088f869ce427987aabfee2e1019b908fe7d2b6e4b0e8f74f5af81"
      [] secret = "s2" /\ data = "[\"a\\\".b;c=\\\\d e\",\"c3\",\"c2\"]" -> "bccc859d0a1253aae5565ba5ee82e20a66f2b1fc33adb14d9bf20bb7facecc37"
      [] secret = "s2" /\ data = "[\"c1\",\"c2\",\"c3\",\"a\\\".b;c=\\\\d e\"]" -> "c3214f2301ed9eb1785a0906282746fff2b42b874594d7abb47882e605cd09a6"
      [] secret = "s2" /\ data = "[\"c1\",\"c2\",\"a\\\".b;c=\\\\d e\",\"c3\"]" -> "7506489413828ef526c1b0e842a98d1d25fbb6202528f2a2960a24b64ef86163"
      [] secret = "s2" /\ data = "[\"c1\",\"c3\",\"c2\",\"a\\\".b;c=\\\\d e\"]" -> "a133d7026040e4577ac845cf633420e12b99bffbdd31a6a09846d13eea07947a"
      [] secret = "s2" /\ data = "[\"c1\",\"c3\",\"a\\\".b;c=\\\\d e\",\"c2\"]" -> "80ce1dd32ac5d9bff8bedae4a84ce49116ac27a23f1a3258415a71e4dd6e7e75"
      [] secret = "s2" /\ data = "[\"c1\",\"a\\\".b;c=\\\\d e\",\"c2\",\"c3\"]" -> "060c7d5719b3247226dfb2333da39937b4f1fbce6821301e80620d1a4614ece5"
      [] secret = "s2" /\ data = "[\"c1\",\"a\\\".b;c=\\\\d e\",\"c3\",\"c2\"]" -> "b90ff0ab2b3ee06499ae25ff17b8ed2d02ba7e72f3423dc1ece61b574c9b8340"
      [] secret = "s2" /\ data = "[\"c2\",\"c1\",\"c3\",\"a\\\".b;c=\\\\d e\"]" -> "f8f6d05c3f35419ad8546e990153afc671fe2d2d544349a654759438254f26d7"
      [] secret = "s2" /\ data = "[\"c2\",\"c1\",\"a\\\".b;c=\\\\d e\",\"c3\"]" -> "1b1fa31d6913b43042831d2409efe53eaaaa23c6fd63e5802abd559c7653e3aa"
      [] secret = "s2" /\ data = "[\"c2\",\"c3\",\"c1\",\"a\\\".b;c=\\\\d e\"]" -> "31ed7d8fc62c2077d3ae11889e3592bf3c1599ffa81bfd00b8e1806b3e68b3ce"
      [] secret = "s2" /\ data = "[\"c2\",\"c3\",\"a\\\".b;c=\\\\d e\",\"c1\"]" -> "1542ad3fa2a8926127adf344c0c590242f4cadce533b3a0a1fb2fb6ef23c8290"
      [] secret = "s2" /\ data = "[\"c2\",\"a\\\".b;c=\\\\d e\",\"c1\",\"c3\"]" -> "9f84790b02ae1176750315362293340179232227249d288885fc8e9939d52773"
      [] secret = "s2" /\ data = "[\"c2\",\"a\\\".b;c=\\\\d e\",\"c3\",\"c1\"]" -> "cc559f121d64d3851b0b2e6adf6847af7bbaf1eef157880cff04c5c665339318"
      [] secret = "s2" /\ data = "[\"c3\",\"c1\",\"c2\",\"a\\\".b;c=\\\\d e\"]" -> "88838911c0fd2cb4022178ba6cd824ac4c57534f09c726843e72bcc7719d56e7"
      [] secret = "s2" /\ data = "[\"c3\",\"c1\",\"a\\\".b;c=\\\\d e\",\"c2\"]" -> "caef7d54c0ed3a66c35f8c1a87ccbae1b30bcd9f3ede24eba0dcc387ee0bc662"
      [] secret = "s2" /\ data = "[\"c3\",\"c2\",\"c1\",\"a\\\".b;c=\\\\d e\"]" -> "e9004d617b4623c9ca4a51f5d4acd5e0b8cae7061474911b066b5ff446cb526a"
      [] secret = "s2" /\ data = "[\"c3\",\"c2\",\"a\\\".b;c=\\\\d e\",\"c1\"]" -> "f3bdd0ccebe7f08bab34930ae07e3e01892b4afd4e5abde1381c6faa86d6a0e7"
      [] secret = "s2" /\ data = "[\"c3\",\"a\\\".b;c=\\\\d e\",\"c1\",\"c2\"]" -> "e1a9cbd50f1de56379133180e2dcdc5ebd4c42320ec6e2bdeeb6a26727a80dd0"
      [] secret = "s2" /\ data = "[\"c3\",\"a\\\".b;c=\\\\d e\",\"c2\",\"c1\"]" -> "bd58fe64b1d0410b44064470520e4213cc19da981667fdf4bdec1e1781964445"
      [] secret = "s2" /\ data = "[\"a\\\".b;c=\\\\d e\",\"c1\",\"c2\",\"c3\"]" -> "e7b619036f3d3c90ec44939f2e2ada7901a6aa822cbd7a552d698c518952000a"
      [] secret = "s2" /\ data = "[\"a\\\".b;c=\\\\d e\",\"c1\",\"c3\",\"c2\"]" -> "7d009496c90a769fc6e18d83ac8177c8c1866e749265d244e16e58e5754b3db4"
      [] secret = "s2" /\ data = "[\"a\\\".b;c=\\\\d e\",\"c2\",\"c1\",\"c3\"]" -> "c843199fb187d8f7e74a43b326783babf1604d5bd9ff438902562cf3459ec6d1"
      [] secret = "s2" /\ data = "[\"a\\\".b;c=\\\\d e\",\"c2\",\"c3\",\"c1\"]" -> "91abd143246f7131f41030ab3d1c0c84da9682646ef3f8e8b49e2f02adf381f9"
      [] secret = "s2" /\ data = "[\"a\\\".b;c=\\\\d e\",\"c3\",\"c1\",\"c2\"]" -> "738ae91940fcf4c4b2456a67a06ce34ae9ca4fc79c90cba01822b555394910aa"
      [] secret = "s2" /\ data = "[\"a\\\".b;c=\\\\d e\",\"c3\",\"c2\",\"c1\"]" -> "4cf21d77bd71dd4c6539398af4812f0f88a1669f310919673734644de20de06a"
      [] secret = "s2" /\ data = "[\"c1\",\"c1\"]" -> "48dc9f5c526e3034035b8047034c17460790d9f1b14a22874f334c4d9592df9f"
      [] secret = "s2" /\ data = "{\"a\":\"c1\"}" -> "3e948ee555705a60a2aa38be91d32eaa910e33af5a5b96581a4f0b91aee086a1"
      [] secret = "s2" /\ data = "\"c1\"" -> "20ff70097eea65375f13891d3b1cc18a947411164ac947f49eea9c73f7171513"
      [] secret = "s2" /\ data = "[1]" -> "8c5c2de389228cf888f049499d1b58dd5e2a0c58b37d3fb94c50fd0ddf3f0902"
      [] secret = "s2" /\ data = "[\"c1\",7]" -> "52582ce0ac55424976e3ae57ff2cbdc0415fb9f8232dddbaf4047a026abf1381"
      [] secret = "s2" /\ data = "null" -> "87d5ed6818ca37d67efc10594ec66420f04cb8f27bc35c3faa768f89f44ecdf3"
      [] secret = "s2" /\ data = "[\"c1\"" -> "ce2adea3750eb71db465322708aed3956f5a7194577b4944a01391f0add86a4a"
      [] secret = "s2" /\ data = "" -> "6546db624855ac9a3db1eb4a0beb0079fcfde40ccc34e57f9b51cdbbfe8782bf"
      [] secret = "s2" /\ data = "[ \"c1\" ]" -> "f4f42133fc314b4808be9cb9259b829e3d9bdf5763f1af0c870a7a0c7030ce29"
      [] secret = "s2" /\ data = "[[\"c1\"]]" -> "b554b21033106ae97013427bf188243a5a448eedab03202875c9212ef93b781f"

\* crypto.subtle.sign('HMAC', key, enc.encode(data)): the 32 bytes
HmacSha256(secret, data) == BytesOfLiteral(HmacSha256Table(secret, data))

\* ---------------------------------------------------------------- errors

\* new OAuthError(code, description, statusCode)
OAuthError(code, description, statusCode) ==
    [error |-> code, description |-> description, status |-> statusCode]

\* OAuthError.prototype.toResponse: the JSON body and the status
toResponse(e) ==
    [status    |-> e.status,
     body      |-> JSONstringify(JObj(<< <<"error", JStr(e.error)>>,
                                         <<"error_description", JStr(e.description)>> >>)),
     setCookie |-> <<>>,
     location  |-> NULL,
     form      |-> [state |-> NULL, csrf_token |-> NULL]]

\* c.text(text, status) and new Response(text, {status})
TextResponse(text, status) ==
    [status |-> status, body |-> text, setCookie |-> <<>>, location |-> NULL,
     form |-> [state |-> NULL, csrf_token |-> NULL]]

Throw(e) == [ok |-> FALSE, err |-> e]

\* JavaScript's !x for a string-or-null x
Falsy(x) == x = NULL \/ x = ""

\* --------------------------------------------------------- CSRF protection

\* the faulty variant that scopes the cookie to a domain
CookieAttrs_WithDomain(maxAge) ==
    "; HttpOnly; Secure; Path=/; Domain=example.com; SameSite=Lax; Max-Age="
    \o ToDecimal(maxAge)

CookieAttrs(maxAge) ==
    "; HttpOnly; Secure; Path=/; SameSite=Lax; Max-Age=" \o ToDecimal(maxAge)

csrfCookieName == "__Host-CSRF_TOKEN"

\* generateCSRFProtection, for the token crypto.randomUUID() returned
generateCSRFProtection(token) ==
    [token     |-> token,
     setCookie |-> csrfCookieName \o "=" \o token \o CookieAttrs(600)]

\* A form field that holds a File, not a string.
FILE == "<file>"

\* the faulty variant that only requires both tokens to be there
validateCSRFToken_NoCompare(tokenFromForm, cookieHeader) ==
    LET tokenFromCookie == CookieValue(cookieHeader, csrfCookieName)
    IN  IF Falsy(tokenFromForm) \/ tokenFromForm = FILE
        THEN Throw(OAuthError("invalid_request", "Missing CSRF token in form data", 400))
        ELSE IF Falsy(tokenFromCookie)
        THEN Throw(OAuthError("invalid_request", "Missing CSRF token cookie", 400))
        ELSE [ok |-> TRUE, clearCookie |-> csrfCookieName \o "=" \o CookieAttrs(0)]

\* validateCSRFToken(formData, request): tokenFromForm is
\* formData.get('csrf_token'), cookieHeader the request's Cookie header
\* ("" when it has none).
validateCSRFToken(tokenFromForm, cookieHeader) ==
    LET tokenFromCookie == CookieValue(cookieHeader, csrfCookieName)
    IN  IF Falsy(tokenFromForm) \/ tokenFromForm = FILE
        THEN Throw(OAuthError("invalid_request", "Missing CSRF token in form data", 400))
        ELSE IF Falsy(tokenFromCookie)
        THEN Throw(OAuthError("invalid_request", "Missing CSRF token cookie", 400))
        ELSE IF tokenFromForm # tokenFromCookie
        THEN Throw(OAuthError("invalid_request", "CSRF token mismatch", 400))
        ELSE [ok |-> TRUE, clearCookie |-> csrfCookieName \o "=" \o CookieAttrs(0)]

\* ------------------------------------------------------------ the KV store

StateTTL == 600

StateKey(stateToken) == "oauth:state:" \o stateToken

\* a key the store does not hold
Absent == [value |-> NULL, exp |-> 0]

\* the faulty variant that returns a value past its expirationTtl
KvGet_IgnoreExpiry(store, key, time) == store[key].value

\* kv.get(key): the value, NULL when the key is absent or has expired
KvGet(store, key, time) ==
    IF store[key] = Absent \/ time >= store[key].exp THEN NULL
    ELSE store[key].value

\* the faulty variant of kv.put that writes the value under every key
KvPut_Clobber(store, key, value, expirationTtl, time) ==
    [k \in DOMAIN store |-> [value |-> value, exp |-> time + expirationTtl]]

\* kv.put(key, value, {expirationTtl})
KvPut(store, key, value, expirationTtl, time) ==
    [store EXCEPT ![key] = [value |-> value, exp |-> time + expirationTtl]]

\* the faulty variant of kv.delete that leaves the record
KvDelete_Keep(store, key) == store

\* the faulty variant of kv.delete that empties the namespace
KvDelete_All(store, key) == [k \in DOMAIN store |-> Absent]

\* kv.delete(key)
KvDelete(store, key) == [store EXCEPT ![key] = Absent]

\* ----------------------------------------------------- state and binding

consentedStateCookieName == "__Host-CONSENTED_STATE"

\* a handler that wrote nothing
NoPut == [key |-> NULL, value |-> NULL, expirationTtl |-> 0]

\* the faulty variant that stores the client id alone
createOAuthState_ClientOnly(oauthReqInfo, stateToken) ==
    [key |-> StateKey(stateToken),
     value |-> JSONstringify(JObj(<< <<"clientId", Member(oauthReqInfo, "clientId")>> >>)),
     expirationTtl |-> StateTTL]

\* createOAuthState(oauthReqInfo, kv): the kv.put it performs, for the
\* token crypto.randomUUID() returned
createOAuthState(oauthReqInfo, stateToken) ==
    [key |-> StateKey(stateToken), value |-> JSONstringify(oauthReqInfo),
     expirationTtl |-> StateTTL]

\* the hex text of the SHA-256 digest of a state token
HashHex(stateToken) == HexOfBytes(Sha256(stateToken))

\* bindStateToSession(stateToken).setCookie
bindStateToSession(stateToken) ==
    consentedStateCookieName \o "=" \o HashHex(stateToken) \o CookieAttrs(600)

\* the faulty variant that does not require the binding cookie
ValidateLookup_NoCookieCheck(storedDataJson, cookieHeader) ==
    IF Falsy(storedDataJson)
    THEN Throw(OAuthError("invalid_request", "Invalid or expired state", 400))
    ELSE [ok |-> TRUE,
          consentedStateHash |-> CookieValue(cookieHeader, consentedStateCookieName)]

\* validateOAuthState, from the answer of kv.get to the digest: the stored
\* payload must exist and the request must carry the binding cookie.
ValidateLookup(storedDataJson, cookieHeader) ==
    LET consentedStateHash == CookieValue(cookieHeader, consentedStateCookieName)
    IN  IF Falsy(storedDataJson)
        THEN Throw(OAuthError("invalid_request", "Invalid or expired state", 400))
        ELSE IF Falsy(consentedStateHash)
        THEN Throw(OAuthError("invalid_request",
                 "Missing session binding cookie - authorization flow must be restarted",
                 400))
        ELSE [ok |-> TRUE, consentedStateHash |-> consentedStateHash]

\* the faulty variant that does not compare the digest with the cookie
ValidateBinding_NoCompare(stateFromQuery, consentedStateHash, storedDataJson) ==
    LET parsed == JSONparse(storedDataJson)
    IN  IF ~parsed.ok
        THEN Throw(OAuthError("server_error", "Invalid state data", 500))
        ELSE [ok |-> TRUE, oauthReqInfo |-> parsed.val]

\* the faulty variant that blames the client for a payload that does not parse
ValidateBinding_ClientError(stateFromQuery, consentedStateHash, storedDataJson) ==
    IF HashHex(stateFromQuery) # consentedStateHash
    THEN Throw(OAuthError("invalid_request",
             "State token does not match session - possible CSRF attack detected",
             400))
    ELSE IF ~JSONparse(storedDataJson).ok
    THEN Throw(OAuthError("invalid_request", "Invalid state data", 400))
    ELSE [ok |-> TRUE, oauthReqInfo |-> JSONparse(storedDataJson).val]

\* validateOAuthState, from the digest to the delete: the digest of the
\* state must equal the cookie's, and the stored payload must parse.
ValidateBinding(stateFromQuery, consentedStateHash, storedDataJson) ==
    LET stateHash == HashHex(stateFromQuery)
        parsed    == JSONparse(storedDataJson)
    IN  IF stateHash # consentedStateHash
        THEN Throw(OAuthError("invalid_request",
                 "State token does not match session - possible CSRF attack detected",
                 400))
        ELSE IF ~parsed.ok
        THEN Throw(OAuthError("server_error", "Invalid state data", 500))
        ELSE [ok |-> TRUE, oauthReqInfo |-> parsed.val]

\* validateOAuthState's clearCookie
clearSessionCookie == consentedStateCookieName \o "=" \o CookieAttrs(0)

\* ------------------------------------------------- approved-clients cookie

approvedClientsCookieName == "__Host-APPROVED_CLIENTS"

THIRTY_DAYS_IN_SECONDS == 2592000

NaN == -1000

\* Number.parseInt(text, 16) of a text of one or two characters: leading
\* white space, a sign and the prefix 0x are skipped, then the hex digits
\* are read up to the first other character; NaN when there is none.
parseInt16(text) ==
    LET Digits(neg, t3) ==
            LET d1  == IF Len(t3) >= 1 THEN HexValue(Ch(t3, 1)) ELSE -1
                d2  == IF Len(t3) >= 2 THEN HexValue(Ch(t3, 2)) ELSE -1
                mag == IF d2 >= 0 THEN 16 * d1 + d2 ELSE d1
            IN  IF d1 < 0 THEN NaN ELSE IF neg THEN -mag ELSE mag
        Prefixed(neg, t2) ==
            Digits(neg, IF Len(t2) >= 2 /\ SubSeq(t2, 1, 2) \in {"0x", "0X"}
                        THEN Substring(t2, 2) ELSE t2)
        Signed(t1) ==
            Prefixed(Len(t1) > 0 /\ Ch(t1, 1) = "-",
                     IF Len(t1) > 0 /\ Ch(t1, 1) \in {"-", "+"}
                     THEN Substring(t1, 1) ELSE t1)
    IN  Signed(TrimStart(text))

\* the element new Uint8Array([x]) holds: NaN is 0, others modulo 256
ToUint8(x) == IF x = NaN THEN 0 ELSE x % 256

\* signatureHex.match(/.{1,2}/g): the text cut in pieces of two characters
\* (the last may have one); the empty sequence stands for null (no match)
RECURSIVE MatchPairs(_)
MatchPairs(text) ==
    IF Len(text) = 0 THEN <<>>
    ELSE IF Len(text) <= 2 THEN <<text>>
    ELSE <<SubSeq(text, 1, 2)>> \o MatchPairs(Substring(text, 2))

\* importKey(secret): throws when the secret is empty
importKeyThrows(secret) == Falsy(secret)

ImportKeyError == [error |-> "Error",
                   description |-> "cookieSecret is required for signing cookies",
                   status |-> 500]

\* the faulty variant that signs with one fixed key whatever the secret
signData_FixedKey(data, secret) ==
    IF importKeyThrows(secret) THEN Throw(ImportKeyError)
    ELSE [ok |-> TRUE, val |-> HexOfBytes(HmacSha256("s1", data))]

\* signData(data, secret): the hex text of the HMAC
signData(data, secret) ==
    IF importKeyThrows(secret) THEN Throw(ImportKeyError)
    ELSE [ok |-> TRUE, val |-> HexOfBytes(HmacSha256(secret, data))]

\* the faulty variant that accepts every signature
verifySignature_AlwaysValid(signatureHex, data, secret) ==
    IF importKeyThrows(secret) THEN Throw(ImportKeyError)
    ELSE [ok |-> TRUE, val |-> TRUE]

\* verifySignature(signatureHex, data, secret)
verifySignature(signatureHex, data, secret) ==
    LET Verified(pairs) ==
            IF pairs = <<>>
            THEN [ok |-> TRUE, val |-> FALSE]      \* null.map throws: caught
            ELSE [ok |-> TRUE,
                  val |-> [i \in 1..Len(pairs) |-> ToUint8(parseInt16(pairs[i]))]
                          = HmacSha256(secret, data)]
    IN  IF importKeyThrows(secret) THEN Throw(ImportKeyError)
        ELSE Verified(MatchPairs(signatureHex))

\* the answer "null" of getApprovedClientsFromCookie
NoClients == [ok |-> TRUE, isNull |-> TRUE, val |-> <<>>]

InvalidCharacterError ==
    [error |-> "InvalidCharacterError",
     description |-> "atob() called with invalid base64-encoded data",
     status |-> 500]

\* getApprovedClientsFromCookie(request, cookieSecret): the list, null, or
\* the exception it lets escape.  cookieHeader is NULL when the request
\* has no Cookie header.
getApprovedClientsFromCookie(cookieHeader, cookieSecret) ==
    LET Listed(parsed) ==
            IF ~parsed.ok THEN NoClients
            ELSE IF \/ parsed.val.t # "arr"
                    \/ \E i \in 1..Len(parsed.val.v) : parsed.val.v[i].t # "str"
            THEN NoClients
            ELSE [ok |-> TRUE, isNull |-> FALSE,
                  val |-> [i \in 1..Len(parsed.val.v) |-> parsed.val.v[i].v]]
        Verified(isValid, payload) ==
            IF ~isValid.ok THEN isValid
            ELSE IF ~isValid.val THEN NoClients
            ELSE Listed(JSONparse(payload))
        Decoded(signatureHex, decoded) ==
            IF ~decoded.ok THEN Throw(InvalidCharacterError)
            ELSE Verified(verifySignature(signatureHex, decoded.val, cookieSecret),
                          decoded.val)
        Parts(parts) ==
            IF Len(parts) # 2 THEN NoClients
            ELSE Decoded(parts[1], atob(parts[2]))
        Value(cookieValue) ==
            IF cookieValue = NULL THEN NoClients
            ELSE Parts(Split(cookieValue, "."))
    IN  IF Falsy(cookieHeader) THEN NoClients
        ELSE Value(CookieValue(cookieHeader, approvedClientsCookieName))

\* isClientApproved(request, clientId, cookieSecret): a boolean, or the
\* exception that escapes
isClientApproved(cookieHeader, clientId, cookieSecret) ==
    LET Includes(approvedClients) ==
            IF ~approvedClients.ok THEN approvedClients
            ELSE [ok |-> TRUE,
                  val |-> /\ ~approvedClients.isNull
                          /\ \E i \in 1..Len(approvedClients.val) :
                                 approvedClients.val[i] = clientId]
    IN  Includes(getApprovedClientsFromCookie(cookieHeader, cookieSecret))

\* Array.from(new Set(list)): the first occurrence of each element, in order
RECURSIVE Dedupe(_)
Dedupe(list) ==
    LET Add(rest, last) ==
            IF \E i \in 1..Len(rest) : rest[i] = last THEN rest
            ELSE Append(rest, last)
    IN  IF list = <<>> THEN <<>>
        ELSE Add(Dedupe(SubSeq(list, 1, Len(list) - 1)), list[Len(list)])

\* the faulty variant that starts a new list at every call
addApprovedClient_DropExisting(cookieHeader, clientId, cookieSecret) ==
    LET Signed(signature, payload) ==
            IF ~signature.ok THEN signature
            ELSE [ok |-> TRUE,
                  val |-> approvedClientsCookieName \o "=" \o signature.val
                          \o "." \o btoa(payload)
                          \o CookieAttrs(THIRTY_DAYS_IN_SECONDS)]
        Payload(payload) == Signed(signData(payload, cookieSecret), payload)
        Existing(existing) ==
            IF ~existing.ok THEN existing
            ELSE Payload(JSONstringify(JArr(<<JStr(clientId)>>)))
    IN  Existing(getApprovedClientsFromCookie(cookieHeader, cookieSecret))

\* addApprovedClient(request, clientId, cookieSecret): the Set-Cookie text,
\* or the exception that escapes
addApprovedClient(cookieHeader, clientId, cookieSecret) ==
    LET Signed(signature, payload) ==
            IF ~signature.ok THEN signature
            ELSE [ok |-> TRUE,
                  val |-> approvedClientsCookieName \o "=" \o signature.val
                          \o "." \o btoa(payload)
                          \o CookieAttrs(THIRTY_DAYS_IN_SECONDS)]
        Payload(payload) == Signed(signData(payload, cookieSecret), payload)
        Updated(updatedApprovedClients) ==
            Payload(JSONstringify(JArr([i \in 1..Len(updatedApprovedClients) |->
                                           JStr(updatedApprovedClients[i])])))
        Existing(existing) ==
            IF ~existing.ok THEN existing
            ELSE Updated(Dedupe(Append(existing.val, clientId)))
    IN  Existing(getApprovedClientsFromCookie(cookieHeader, cookieSecret))

\* ------------------------------------------------------------- responses

NoForm == [state |-> NULL, csrf_token |-> NULL]

NoResp == [status |-> 0, body |-> NULL, setCookie |-> <<>>, location |-> NULL,
           form |-> NoForm]

\* env.COOKIE_ENCRYPTION_KEY
COOKIE_ENCRYPTION_KEY == "s1"

\* getUpstreamAuthorizeUrl(...): the Location of the redirect to Google
\* (the fixed parameters are left out)
getUpstreamAuthorizeUrl(state) ==
    "https://accounts.google.com/o/oauth2/v2/auth?"
    \o (IF Falsy(state) THEN "" ELSE "state=" \o state \o "&")
    \o "response_type=code"

\* the faulty variant that keeps the first Set-Cookie value
ObjectFromEntries_KeepFirst(setCookies) ==
    IF setCookies = <<>> THEN <<>> ELSE <<setCookies[1]>>

\* Object.fromEntries(headers) of a Headers object holding the Set-Cookie
\* values appended in order: iteration yields one entry per Set-Cookie, all
\* under the key 'set-cookie', and the object keeps the last.
ObjectFromEntries(setCookies) ==
    IF setCookies = <<>> THEN <<>> ELSE <<setCookies[Len(setCookies)]>>

\* redirectToGoogle(request, stateToken, headers)
redirectToGoogle(stateToken, setCookies) ==
    [status |-> 302, body |-> NULL, setCookie |-> setCookies,
     location |-> getUpstreamAuthorizeUrl(stateToken), form |-> NoForm]

\* renderApprovalDialog(request, options): the page's form fields and the
\* Set-Cookie header
renderApprovalDialog(state, csrfToken, setCookie) ==
    [status |-> 200, body |-> "<!DOCTYPE html>", setCookie |-> <<setCookie>>,
     location |-> NULL,
     form |-> [state |-> btoa(JSONstringify(state)), csrf_token |-> csrfToken]]

\* ------------------------------------------------------------ the bounds

\* the state tokens crypto.randomUUID() can return
Tokens == {"t1"}

\* a state value no flow was ever given
UnknownToken == "t0"

\* the state token of a flow in another browser
OtherToken == "t2"

AllTokens == Tokens \cup {UnknownToken}

\* the CSRF tokens crypto.randomUUID() can return
CsrfTokens == {"k1", "k2"}

ClientIds == {"c1"}

\* the AuthRequest parseAuthRequest returns for a client id
AuthRequest(clientId) ==
    JObj(<< <<"clientId", JStr(clientId)>>, <<"scope", JArr(<<JStr("read")>>)>> >>)

\* the worker's concurrent request slots
Procs == {1, 2}

\* the clock advances by TickSeconds, up to MaxNow
TickSeconds == 300

MaxNow == 600

KvKeys == {StateKey(t) : t \in AllTokens}

\* the cookie `name=value` of a Set-Cookie text, as the browser sends it back
CookiePair(setCookie) == Split(setCookie, ";")[1]

\* hex text with the digit at position i replaced by the next digit
FlipHex(hex, i) ==
    SubSeq(hex, 1, i - 1) \o HexDigit((HexValue(Ch(hex, i)) + 1) % 16)
    \o SubSeq(hex, i + 1, Len(hex))

\* hex text with its first letter digit in upper case
UpperFirstLetter(hex) ==
    IF \A i \in 1..Len(hex) : HexValue(Ch(hex, i)) < 10 THEN hex
    ELSE LET i == CHOOSE i \in 1..Len(hex) :
                      /\ HexValue(Ch(hex, i)) >= 10
                      /\ \A j \in 1..(i - 1) : HexValue(Ch(hex, j)) < 10
         IN  SubSeq(hex, 1, i - 1)
             \o <<"A", "B", "C", "D", "E", "F">>[HexValue(Ch(hex, i)) - 9]
             \o SubSeq(hex, i + 1, Len(hex))

\* -------------------------------------------------------- request inputs

\* the `state` query parameter of a callback: absent, empty, or a text
StateParams == {NULL, ""} \cup AllTokens

\* the `code` query parameter of a callback
Codes == {NULL, "g1"}

\* the values a callback can carry in its session-binding cookie
BindingValues ==
    {HashHex(t) : t \in Tokens \cup {OtherToken}}
    \cup {FlipHex(HashHex("t1"), i) : i \in {1, 64}}
    \cup {UpperFirstLetter(HashHex("t1")), ""}

\* the Cookie headers of a callback ("" when the request has none)
CallbackCookies ==
    {"", csrfCookieName \o "=k1"}
    \cup {consentedStateCookieName \o "=" \o v : v \in BindingValues}
    \cup {csrfCookieName \o "=k1; " \o CookiePair(bindStateToSession("t1"))}

\* what the token endpoint can answer: resp.ok and the body's fields
TokenReplies ==
    {[ok |-> FALSE, error |-> NULL, access_token |-> NULL],
     [ok |-> TRUE, error |-> "invalid_grant", access_token |-> NULL],
     [ok |-> TRUE, error |-> NULL, access_token |-> NULL],
     [ok |-> TRUE, error |-> NULL, access_token |-> "a1"]}

\* ------------------------------------------------- GET /callback, by step

Idle ==
    [pc      |-> "idle",     \* where the handler stands
     state   |-> NULL,       \* url.searchParams.get('state')
     cookie  |-> NULL,       \* request.headers.get('Cookie') || ''
     stored  |-> NULL,       \* storedDataJson
     hash    |-> NULL,       \* consentedStateHash
     info    |-> JUndefined, \* oauthReqInfo
     verdict |-> "none",     \* "ok", or the description validateOAuthState threw
     resp    |-> NoResp,     \* the response returned
     live    |-> FALSE,      \* history: kv.get returned a payload
     expired |-> FALSE,      \* history: kv.get was asked for a record whose
                             \* TTL had elapsed
     prior   |-> 0,          \* history: validations of this state that had
                             \* succeeded when the request came in
     calls   |-> <<>>]       \* history: the upstream calls made so far

\* the handler returns the error validateOAuthState threw
Rejected(slot, e) ==
    [slot EXCEPT !.pc = "done", !.verdict = e.description, !.resp = toResponse(e)]

Returned(slot, response) == [slot EXCEPT !.pc = "done", !.resp = response]

\* A callback request comes in; validateOAuthState reads the state
\* parameter and, if there is one, asks the store for its record.
CbStart(p) ==
    /\ h[p].pc \in {"idle", "done"}
    /\ \E st \in StateParams :
          h' = [h EXCEPT ![p] =
                  IF Falsy(st)
                  THEN Rejected([Idle EXCEPT !.state = st],
                                OAuthError("invalid_request", "Missing state parameter", 400))
                  ELSE [Idle EXCEPT !.pc = "get", !.state = st,
                                    !.prior = hist[st].succ]]
    /\ UNCHANGED <<kv, now, issued, hist, call, ret>>

\* kv.get answers; the binding cookie is read; the digest is asked for.
CbGet(p) ==
    /\ h[p].pc = "get"
    /\ \E ck \in CallbackCookies :
          LET storedDataJson == KvGet(kv, StateKey(h[p].state), now)
              r    == ValidateLookup(storedDataJson, ck)
              record == kv[StateKey(h[p].state)]
              slot == [h[p] EXCEPT !.cookie = ck, !.stored = storedDataJson,
                                   !.live = ~Falsy(storedDataJson),
                                   !.expired = record # Absent /\ now >= record.exp]
          IN  /\ h' = [h EXCEPT ![p] =
                         IF r.ok
                         THEN [slot EXCEPT !.pc = "digest", !.hash = r.consentedStateHash]
                         ELSE Rejected(slot, r.err)]
              /\ hist' = IF ~r.ok /\ ~Falsy(storedDataJson)
                         THEN [hist EXCEPT ![h[p].state].refused = TRUE]
                         ELSE hist
    /\ UNCHANGED <<kv, now, issued, call, ret>>

\* the faulty variant that deletes the record before the comparison
CbDigest_DeleteFirst(p) ==
    /\ h[p].pc = "digest"
    /\ kv' = KvDelete(kv, StateKey(h[p].state))
    /\ LET r == ValidateBinding(h[p].state, h[p].hash, h[p].stored)
       IN
       /\ h' = [h EXCEPT ![p] =
                   IF r.ok
                   THEN [h[p] EXCEPT !.pc = "delete", !.info = r.oauthReqInfo]
                   ELSE Rejected(h[p], r.err)]
       /\ hist' = IF r.ok THEN hist
                  ELSE [hist EXCEPT ![h[p].state].refused = TRUE]
    /\ UNCHANGED <<now, issued, call, ret>>

\* The digest answers; it is compared with the cookie and the payload is
\* parsed; kv.delete is asked for.
CbDigest(p) ==
    /\ h[p].pc = "digest"
    /\ LET r == ValidateBinding(h[p].state, h[p].hash, h[p].stored)
       IN
       /\ h' = [h EXCEPT ![p] =
                   IF r.ok
                   THEN [h[p] EXCEPT !.pc = "delete", !.info = r.oauthReqInfo]
                   ELSE Rejected(h[p], r.err)]
       /\ hist' = IF r.ok THEN hist
                  ELSE [hist EXCEPT ![h[p].state].refused = TRUE]
    /\ UNCHANGED <<kv, now, issued, call, ret>>

\* fetchUpstreamAuthToken up to its fetch: a missing code is answered at once
MissingCode(code) == Falsy(code)

\* kv.delete answers and validateOAuthState returns; the handler checks the
\* client id and calls fetchUpstreamAuthToken, which sends the code upstream.
CbDelete(p) ==
    /\ h[p].pc = "delete"
    /\ kv' = KvDelete(kv, StateKey(h[p].state))
    /\ hist' = [hist EXCEPT ![h[p].state].succ = @ + 1]
    /\ \E code \in Codes :
          LET slot == [h[p] EXCEPT !.verdict = "ok"]
          IN  h' = [h EXCEPT ![p] =
                      IF JsFalsy(Member(slot.info, "clientId"))
                      THEN Returned(slot, TextResponse("Invalid OAuth request data", 400))
                      ELSE IF MissingCode(code)
                      THEN Returned([slot EXCEPT !.calls = <<"fetchUpstreamAuthToken">>],
                                    TextResponse("Missing code", 400))
                      ELSE [slot EXCEPT !.pc = "exchange",
                                        !.calls = <<"fetchUpstreamAuthToken">>]]
    /\ UNCHANGED <<now, issued, call, ret>>

\* fetchUpstreamAuthToken after its fetch: [tokens, errResponse]
TokenResult(reply) ==
    IF ~reply.ok THEN [tokens |-> NULL, err |-> TextResponse("Failed to fetch access token", 500)]
    ELSE IF ~Falsy(reply.error)
    THEN [tokens |-> NULL, err |-> TextResponse("OAuth error: " \o reply.error, 400)]
    ELSE IF Falsy(reply.access_token)
    THEN [tokens |-> NULL, err |-> TextResponse("Missing access token", 400)]
    ELSE [tokens |-> reply.access_token, err |-> NoResp]

\* The token endpoint answers; on success the user info is asked for.
CbExchange(p) ==
    /\ h[p].pc = "exchange"
    /\ \E reply \in TokenReplies :
          LET r == TokenResult(reply)
          IN  h' = [h EXCEPT ![p] =
                      IF r.tokens = NULL THEN Returned(h[p], r.err)
                      ELSE [h[p] EXCEPT !.pc = "userinfo",
                                        !.calls = Append(@, "fetchGoogleUserInfo")]]
    /\ UNCHANGED <<kv, now, issued, hist, call, ret>>

\* The user-info endpoint answers; on success completeAuthorization is called.
CbUserInfo(p) ==
    /\ h[p].pc = "userinfo"
    /\ \E ok \in BOOLEAN :
          h' = [h EXCEPT ![p] =
                  IF ~ok THEN Returned(h[p], TextResponse("Failed to fetch user info", 500))
                  ELSE [h[p] EXCEPT !.pc = "complete",
                                    !.calls = Append(@, "completeAuthorization")]]
    /\ UNCHANGED <<kv, now, issued, hist, call, ret>>

\* the faulty variant that redirects without the Set-Cookie header
CbComplete_NoClear(p) ==
    /\ h[p].pc = "complete"
    /\ h' = [h EXCEPT ![p] = Returned(h[p],
                [status |-> 302, body |-> NULL, setCookie |-> <<>>,
                 location |-> "redirectTo", form |-> NoForm])]
    /\ UNCHANGED <<kv, now, issued, hist, call, ret>>

\* completeAuthorization answers; the handler redirects to the client and
\* clears the binding cookie.
CbComplete(p) ==
    /\ h[p].pc = "complete"
    /\ h' = [h EXCEPT ![p] = Returned(h[p],
                [status |-> 302, body |-> NULL, setCookie |-> <<clearSessionCookie>>,
                 location |-> "redirectTo", form |-> NoForm])]
    /\ UNCHANGED <<kv, now, issued, hist, call, ret>>

\* ------------------------------------------------------ GET/POST /authorize

\* what Hono answers when a handler lets an exception escape
InternalServerError == TextResponse("Internal Server Error", 500)

\* the approved-clients cookie a Set-Cookie text of addApprovedClient sets
ApprovedCookie(clientId, secret) ==
    CookiePair(addApprovedClient(NULL, clientId, secret).val)

\* what a handler did: its response, the kv.put it made (NoPut: none) and
\* the state token it took from crypto.randomUUID() (NULL: none)
Outcome(resp, put, stateToken) == [resp |-> resp, put |-> put, stateToken |-> stateToken]

\* GET /authorize for the client id of the request parseAuthRequest
\* returned, with the tokens crypto.randomUUID() would return
GetAuthorize(clientId, cookieHeader, stateToken, csrfToken) ==
    LET oauthReqInfo == AuthRequest(clientId)
        Dialog(csrf) ==
            Outcome(renderApprovalDialog(JObj(<< <<"oauthReqInfo", oauthReqInfo>> >>),
                                         csrf.token, csrf.setCookie),
                    NoPut, NULL)
        Approved(approved) ==
            IF ~approved.ok THEN Outcome(InternalServerError, NoPut, NULL)
            ELSE IF approved.val
            THEN Outcome(redirectToGoogle(stateToken, <<bindStateToSession(stateToken)>>),
                         createOAuthState(oauthReqInfo, stateToken), stateToken)
            ELSE Dialog(generateCSRFProtection(csrfToken))
    IN  IF Falsy(clientId)
        THEN Outcome(TextResponse("Invalid request", 400), NoPut, NULL)
        ELSE Approved(isClientApproved(cookieHeader, clientId, COOKIE_ENCRYPTION_KEY))

\* the `state` field the consent form carries for a request
EncodedState(oauthReqInfo) ==
    btoa(JSONstringify(JObj(<< <<"oauthReqInfo", oauthReqInfo>> >>)))

\* POST /authorize for the form fields csrf_token and state
PostAuthorize(tokenFromForm, encodedState, cookieHeader, stateToken) ==
    LET fail(resp) == Outcome(resp, NoPut, NULL)
        Approve(reqInfo, approvedClientCookie) ==
            IF ~approvedClientCookie.ok
            THEN fail(TextResponse("Internal server error: "
                                   \o approvedClientCookie.err.description, 500))
            ELSE Outcome(redirectToGoogle(stateToken,
                             ObjectFromEntries(<<approvedClientCookie.val,
                                                 bindStateToSession(stateToken)>>)),
                         createOAuthState(reqInfo, stateToken), stateToken)
        Client(reqInfo, clientId) ==
            IF JsFalsy(reqInfo) \/ JsFalsy(clientId)
            THEN fail(TextResponse("Invalid request", 400))
            ELSE Approve(reqInfo,
                         addApprovedClient(IF cookieHeader = "" THEN NULL ELSE cookieHeader,
                                           clientId.v, COOKIE_ENCRYPTION_KEY))
        Info(reqInfo) == Client(reqInfo, Member(reqInfo, "clientId"))
        Parsed(parsed) ==
            IF ~parsed.ok THEN fail(TextResponse("Invalid state data", 400))
            ELSE IF parsed.val = JLit("null")
            THEN fail(TextResponse("Internal server error: Cannot read properties of null",
                                   500))
            ELSE Info(Member(parsed.val, "oauthReqInfo"))
        Decoded(decoded) ==
            IF ~decoded.ok THEN fail(TextResponse("Invalid state data", 400))
            ELSE Parsed(JSONparse(decoded.val))
        Checked(csrf) ==
            IF ~csrf.ok THEN fail(toResponse(csrf.err))
            ELSE IF Falsy(encodedState) \/ encodedState = FILE
            THEN fail(TextResponse("Missing state in form data", 400))
            ELSE Decoded(atob(encodedState))
    IN  Checked(validateCSRFToken(tokenFromForm, cookieHeader))

\* the Cookie headers of a GET /authorize (NULL when the request has none)
GetAuthorizeCookies ==
    {NULL,
     ApprovedCookie("c1", COOKIE_ENCRYPTION_KEY),
     ApprovedCookie("c1", "s2"),
     approvedClientsCookieName \o "=00.!"}

\* the Cookie headers of a POST /authorize ("" when the request has none)
PostAuthorizeCookies ==
    {"", csrfCookieName \o "=k1", csrfCookieName \o "=k2",
     csrfCookieName \o "=k1; " \o ApprovedCookie("c1", COOKIE_ENCRYPTION_KEY)}

\* the `state` form fields of a POST /authorize
PostAuthorizeStates ==
    {NULL, "!!", btoa("null")} \cup {EncodedState(AuthRequest(c)) : c \in {""} \cup ClientIds}

\* what GET /authorize does on the requests of the model
GetAuthorizeOutcomes ==
    {GetAuthorize(clientId, ck, t, k) :
        clientId \in {""} \cup ClientIds, ck \in GetAuthorizeCookies,
        t \in Tokens, k \in CsrfTokens}

\* what POST /authorize does on the requests of the model
PostAuthorizeOutcomes ==
    {PostAuthorize(f, st, ck, t) :
        f \in {NULL, "k1"}, st \in PostAuthorizeStates, ck \in PostAuthorizeCookies,
        t \in Tokens}

\* the store and the tokens in use after a handler's outcome
Served(o) ==
    /\ o.stateToken # NULL => o.stateToken \notin issued
    /\ kv' = IF o.put = NoPut THEN kv
             ELSE KvPut(kv, o.put.key, o.put.value, o.put.expirationTtl, now)
    /\ issued' = IF o.stateToken = NULL THEN issued ELSE issued \cup {o.stateToken}

\* A GET /authorize request is served.
GetAuthorizeStep ==
    /\ \E o \in GetAuthorizeOutcomes : Served(o)
    /\ UNCHANGED <<now, h, hist, call, ret>>

\* A POST /authorize request is served.
PostAuthorizeStep ==
    /\ \E o \in PostAuthorizeOutcomes : Served(o)
    /\ UNCHANGED <<now, h, hist, call, ret>>

\* ------------------------------------------------------------- the system

\* Time passes.
Tick ==
    /\ now + TickSeconds <= MaxNow
    /\ now' = now + TickSeconds
    /\ UNCHANGED <<kv, issued, h, hist, call, ret>>

Init ==
    /\ kv = [k \in KvKeys |-> Absent]
    /\ now = 0
    /\ issued = {}
    /\ h = [p \in Procs |-> Idle]
    /\ hist = [t \in AllTokens |-> [succ |-> 0, refused |-> FALSE]]
    /\ call = NULL
    /\ ret = NoResp

CallbackStep(p) ==
    \/ CbGet(p)
    \/ CbDigest(p)
    \/ CbDelete(p)
    \/ CbExchange(p)
    \/ CbUserInfo(p)
    \/ CbComplete(p)

\* The worker serves requests concurrently: the callbacks interleave at
\* their awaits.
Next ==
    \/ GetAuthorizeStep
    \/ PostAuthorizeStep
    \/ Tick
    \/ \E p \in Procs : CbStart(p) \/ CallbackStep(p)

Spec == Init /\ [][Next]_vars

\* One request at a time: a callback comes in only when no other is in
\* flight.
NoneInFlight == \A p \in Procs : h[p].pc \in {"idle", "done"}

SeqCbStart(p) == NoneInFlight /\ CbStart(p)

NextSeq ==
    \/ GetAuthorizeStep
    \/ PostAuthorizeStep
    \/ Tick
    \/ \E p \in Procs : SeqCbStart(p) \/ CallbackStep(p)

SpecSeq == Init /\ [][NextSeq]_vars

\* ------------------------------------------------ validateCSRFToken alone

\* no answer yet
Pending == [pending |-> TRUE]

\* the csrf_token form fields: none, empty, a File, and texts
CsrfForms == {NULL, "", FILE, "k1", "K1", "k2", "k1x"}

\* the values of the CSRF cookie (NULL: the request has no such cookie)
CsrfCookieTokens == {NULL, "", "k1", "K1", "k2", "k1x"}

\* the other cookies around it: <<before, after>>
CookieLayouts == {<<"", "">>, <<"a=1; ", "">>, <<"", "; b=2">>}

\* the Cookie header that carries cookie `name` with value `value`
\* (not at all when value is NULL) in a layout
HeaderWith(name, value, layout) ==
    IF value = NULL
    THEN IF layout[1] # "" THEN "a=1" ELSE IF layout[2] # "" THEN "b=2" ELSE ""
    ELSE layout[1] \o name \o "=" \o value \o layout[2]

CsrfCalls ==
    {[form |-> f, token |-> t, cookieHeader |-> HeaderWith(csrfCookieName, t, l)] :
        f \in CsrfForms, t \in CsrfCookieTokens, l \in CookieLayouts}

InitCSRF ==
    /\ call \in CsrfCalls
    /\ ret = Pending
    /\ kv = [k \in KvKeys |-> Absent]
    /\ now = 0
    /\ issued = {}
    /\ h = [p \in Procs |-> Idle]
    /\ hist = [t \in AllTokens |-> [succ |-> 0, refused |-> FALSE]]

\* validateCSRFToken answers.
ValidateCSRFStep ==
    /\ ret = Pending
    /\ ret' = validateCSRFToken(call.form, call.cookieHeader)
    /\ UNCHANGED <<kv, now, issued, h, hist, call>>

SpecCSRF == InitCSRF /\ [][ValidateCSRFStep]_vars

\* ------------------------------------------------- isClientApproved alone

\* the approved lists a cookie was signed for
ClientLists ==
    {<<>>, <<"c1">>, <<"c2">>, <<"c1", "c2">>, <<"c2", "c1">>, <<"c1", "c2", "c3">>}

\* the client ids asked about
AskedClients == {"c1", "c2", "c3"}

\* the payload addApprovedClient signs for a list
PayloadOf(list) == JSONstringify(JArr([i \in 1..Len(list) |-> JStr(list[i])]))

\* payloads that are no JSON array of strings
NotListTexts ==
    {"{\"a\":\"c1\"}", "\"c1\"", "[1]", "[\"c1\",7]", "null", "[\"c1\"", "", "[[\"c1\"]]"}

\* the approved-clients cookie with a signature text and a payload part
SignedCookie(signatureHex, base64Payload) ==
    approvedClientsCookieName \o "=" \o signatureHex \o "." \o base64Payload

\* the signature text of a payload under a secret
SignatureOf(payload, secret) == signData(payload, secret).val

ApprovalCookies ==
    {[kind |-> "absent", cookie |-> ck, list |-> <<>>, payload |-> ""] : ck \in {NULL, "a=1"}}
    \cup {[kind |-> "parts", cookie |-> approvedClientsCookieName \o "=" \o v,
           list |-> <<"c1">>, payload |-> PayloadOf(<<"c1">>)] :
            v \in {"", SignatureOf(PayloadOf(<<"c1">>), COOKIE_ENCRYPTION_KEY),
                   SignatureOf(PayloadOf(<<"c1">>), COOKIE_ENCRYPTION_KEY)
                       \o "." \o btoa(PayloadOf(<<"c1">>)) \o ".x"}}
    \cup {[kind |-> "base64",
           cookie |-> SignedCookie(SignatureOf(PayloadOf(<<"c1">>), COOKIE_ENCRYPTION_KEY), v),
           list |-> <<"c1">>, payload |-> PayloadOf(<<"c1">>)] :
            v \in {"!", "WyJjMSJd*", "WyJjM"}}
    \cup {[kind |-> "notlist",
           cookie |-> SignedCookie(SignatureOf(t, COOKIE_ENCRYPTION_KEY), btoa(t)),
           list |-> <<>>, payload |-> t] : t \in NotListTexts}
    \cup {[kind |-> "signature",
           cookie |-> SignedCookie(sg, btoa(PayloadOf(<<"c1">>))),
           list |-> <<"c1">>, payload |-> PayloadOf(<<"c1">>)] :
            sg \in {"", "zz", SignatureOf(PayloadOf(<<"c1">>), "s2"),
                    FlipHex(SignatureOf(PayloadOf(<<"c1">>), COOKIE_ENCRYPTION_KEY), 64),
                    SubSeq(SignatureOf(PayloadOf(<<"c1">>), COOKIE_ENCRYPTION_KEY), 1, 62)}}
    \cup {[kind |-> "valid",
           cookie |-> SignedCookie(SignatureOf(PayloadOf(l), COOKIE_ENCRYPTION_KEY),
                                   btoa(PayloadOf(l))),
           list |-> l, payload |-> PayloadOf(l)] : l \in ClientLists}
    \cup {[kind |-> "tampered",
           cookie |-> SignedCookie(SignatureOf(PayloadOf(l), COOKIE_ENCRYPTION_KEY), btoa(t)),
           list |-> l, payload |-> t] :
            l \in ClientLists,
            t \in {PayloadOf(m) : m \in ClientLists}
                   \cup {"{\"a\":\"c1\"}", "\"c1\"", "[ \"c1\" ]"}}

\* a request and the client id asked about; a tampered cookie carries a
\* payload other than the signed one
ApprovalCalls ==
    {[kind |-> c.kind, cookie |-> c.cookie, list |-> c.list, payload |-> c.payload,
      clientId |-> id] :
        c \in {x \in ApprovalCookies : x.kind = "tampered" => x.payload # PayloadOf(x.list)},
        id \in AskedClients}

InitApproved ==
    /\ call \in ApprovalCalls
    /\ ret = Pending
    /\ kv = [k \in KvKeys |-> Absent]
    /\ now = 0
    /\ issued = {}
    /\ h = [p \in Procs |-> Idle]
    /\ hist = [t \in AllTokens |-> [succ |-> 0, refused |-> FALSE]]

\* isClientApproved answers.
IsClientApprovedStep ==
    /\ ret = Pending
    /\ ret' = isClientApproved(call.cookie, call.clientId, COOKIE_ENCRYPTION_KEY)
    /\ UNCHANGED <<kv, now, issued, h, hist, call>>

SpecApproved == InitApproved /\ [][IsClientApprovedStep]_vars

\* ------------------------------------------- addApprovedClient in a chain

\* a client id with the characters JSON.stringify escapes and the ones a
\* Cookie header is split at
OddClient == "a\".b;c=\\d e"

\* the client ids added
AddedClients == AskedClients \cup {OddClient}

\* the values of cookieSecret
CookieSecrets == {"s1", "s2"}

\* the calls of addApprovedClient made one after the other
MaxAdds == 2

\* the secret under which a cookie's signature part signs its payload
\* part, NULL when there is none among the secrets
KeyOf(c) ==
    IF c.kind \in {"valid", "notlist"} THEN COOKIE_ENCRYPTION_KEY
    ELSE IF /\ c.kind = "signature"
            /\ \E s \in CookieSecrets :
                   c.cookie = SignedCookie(SignatureOf(c.payload, s), btoa(c.payload))
    THEN CHOOSE s \in CookieSecrets :
             c.cookie = SignedCookie(SignatureOf(c.payload, s), btoa(c.payload))
    ELSE NULL

\* the approved-clients cookie of the first request
StartCookies ==
    {[kind |-> c.kind, cookie |-> c.cookie, list |-> c.list, payload |-> c.payload,
      key |-> KeyOf(c)] :
        c \in {x \in ApprovalCookies :
                  /\ x.kind = "tampered" =>
                         x.list = <<"c2">> /\ x.payload # PayloadOf(x.list)
                  /\ x.kind = "notlist" => x.payload \in {"\"c1\"", "[\"c1\",7]"}
                  /\ x.kind = "parts" => x.cookie = approvedClientsCookieName \o "="}}

\* the ids the first request's cookie approves under a secret: those of a
\* cookie signed with that secret for a list
TrustedStart(start, secret) ==
    IF start.kind \in {"valid", "signature"} /\ start.key = secret THEN start.list
    ELSE <<>>

\* the record a cookie carries: the JSON text of its payload part, read
\* without the signature
RecordOf(cookiePair) ==
    LET Listed(parsed) == [i \in 1..Len(parsed.val.v) |-> parsed.val.v[i].v]
        Decoded(decoded) == Listed(JSONparse(decoded.val))
    IN  Decoded(atob(Split(CookieValue(cookiePair, approvedClientsCookieName), ".")[2]))

InitAdd ==
    /\ \E c \in StartCookies, s \in CookieSecrets :
           call = [start |-> c, secret |-> s, cookie |-> c.cookie, added |-> <<>>,
                   op |-> "none", clientId |-> NULL, askSecret |-> NULL]
    /\ ret = Pending
    /\ kv = [k \in KvKeys |-> Absent]
    /\ now = 0
    /\ issued = {}
    /\ h = [p \in Procs |-> Idle]
    /\ hist = [t \in AllTokens |-> [succ |-> 0, refused |-> FALSE]]

\* addApprovedClient answers a request that carries the cookie the browser
\* holds; the browser stores the cookie of the answer.
AddApprovedClientStep ==
    /\ call.op # "ask"
    /\ Len(call.added) < MaxAdds
    /\ \E id \in AddedClients :
           LET Answered(set) ==
                   /\ ret' = set
                   /\ call' = [call EXCEPT
                                   !.op = "add", !.clientId = id,
                                   !.cookie = IF set.ok THEN CookiePair(set.val) ELSE @,
                                   !.added = IF set.ok THEN Append(@, id) ELSE @]
           IN  Answered(addApprovedClient(call.cookie, id, call.secret))
    /\ UNCHANGED <<kv, now, issued, h, hist>>

\* isClientApproved answers a later request that carries the stored cookie.
AskApprovedStep ==
    /\ call.op = "add"
    /\ \E id \in AddedClients, s \in CookieSecrets :
           /\ ret' = isClientApproved(call.cookie, id, s)
           /\ call' = [call EXCEPT !.op = "ask", !.clientId = id, !.askSecret = s]
    /\ UNCHANGED <<kv, now, issued, h, hist>>

SpecAdd == InitAdd /\ [][AddApprovedClientStep \/ AskApprovedStep]_vars

\* ------------------------------------------------ a browser at /authorize

\* the state tokens crypto.randomUUID() returns to the authorize routes
FlowTokens == {"t1", "t2"}

\* the client ids of the authorization requests
FlowClients == {"c1", "c2"}

\* the cookies a browser holds for the worker's origin: the value of each,
\* NULL for a cookie it does not hold
Jar(approved, csrf, binding) ==
    [approved |-> approved, csrf |-> csrf, binding |-> binding]

\* the Cookie header of the browser's requests ("" when it holds no cookie)
CookieHeaderOf(jar) ==
    LET Join(a, b) == IF a = "" THEN b ELSE IF b = "" THEN a ELSE a \o "; " \o b
        Pair(name, value) == IF value = NULL THEN "" ELSE name \o "=" \o value
    IN  Join(Join(Pair(approvedClientsCookieName, jar.approved),
                  Pair(csrfCookieName, jar.csrf)),
             Pair(consentedStateCookieName, jar.binding))

\* the jar after the browser has applied one Set-Cookie header: the named
\* cookie takes the value, or is dropped when Max-Age is 0
StoreCookie(jar, setCookie) ==
    LET Stored(pair, gone) ==
            LET Value(name, old) ==
                    IF ~StartsWith(pair, name \o "=") THEN old
                    ELSE IF gone THEN NULL
                    ELSE Substring(pair, Len(name) + 1)
            IN  Jar(Value(approvedClientsCookieName, jar.approved),
                    Value(csrfCookieName, jar.csrf),
                    Value(consentedStateCookieName, jar.binding))
    IN  Stored(CookiePair(setCookie),
               Len(setCookie) >= Len(CookieAttrs(0))
               /\ SubSeq(setCookie, Len(setCookie) - Len(CookieAttrs(0)) + 1,
                         Len(setCookie)) = CookieAttrs(0))

\* the jar after the browser has applied the Set-Cookie headers of a response
RECURSIVE StoreCookies(_, _)
StoreCookies(jar, setCookies) ==
    IF setCookies = <<>> THEN jar
    ELSE StoreCookies(StoreCookie(jar, setCookies[1]),
                      SubSeq(setCookies, 2, Len(setCookies)))

\* the value of the approved-clients cookie addApprovedClient sets
ApprovedValue(clientId, secret) ==
    CookieValue(ApprovedCookie(clientId, secret), approvedClientsCookieName)

\* the jars a browser starts with: no approved-clients cookie, the one
\* signed for c1, one signed with another secret, one whose payload part is
\* no base64; a CSRF cookie of an earlier dialog or none
StartJars ==
    {Jar(a, k, NULL) :
        a \in {NULL, ApprovedValue("c1", COOKIE_ENCRYPTION_KEY),
               ApprovedValue("c1", "s2"), "00.!"},
        k \in {NULL, "k1"}}

\* the `state` fields a consent form is submitted with: that of the dialog
\* for a client, or another text
ConsentStates ==
    {[clientId |-> c, state |-> EncodedState(AuthRequest(c))] : c \in FlowClients}
    \cup {[clientId |-> NULL, state |-> st] :
              st \in {NULL, "!!", EncodedState(AuthRequest(""))}}

InitConsent ==
    /\ \E jar \in StartJars :
           call = [jar |-> jar, sent |-> jar, route |-> "none", clientId |-> NULL,
                   csrf_token |-> NULL, state |-> NULL]
    /\ ret = Outcome(NoResp, NoPut, NULL)
    /\ kv = [k \in KvKeys \cup {StateKey(t) : t \in FlowTokens} |-> Absent]
    /\ now = 0
    /\ issued = {}
    /\ h = [p \in Procs |-> Idle]
    /\ hist = [t \in AllTokens |-> [succ |-> 0, refused |-> FALSE]]

\* the worker has answered the browser's request and the browser has
\* applied the cookies of the answer
Answered(o, route, clientId, csrf_token, state) ==
    /\ Served(o)
    /\ ret' = o
    /\ call' = [jar |-> StoreCookies(call.jar, o.resp.setCookie), sent |-> call.jar,
                route |-> route, clientId |-> clientId,
                csrf_token |-> csrf_token, state |-> state]
    /\ UNCHANGED <<now, h, hist>>

\* The browser is sent to GET /authorize for a client.
BrowserGet ==
    \E c \in FlowClients, t \in FlowTokens \ issued, k \in CsrfTokens :
        Answered(GetAuthorize(c, IF CookieHeaderOf(call.jar) = "" THEN NULL
                                 ELSE CookieHeaderOf(call.jar), t, k),
                 "GET", c, NULL, NULL)

\* The browser submits a consent form: the one of a dialog, or one another
\* site made up.
BrowserPost ==
    \E f \in {NULL} \cup CsrfTokens, st \in ConsentStates, t \in FlowTokens \ issued :
        Answered(PostAuthorize(f, st.state, CookieHeaderOf(call.jar), t),
                 "POST", st.clientId, f, st.state)

SpecConsent == InitConsent /\ [][BrowserGet \/ BrowserPost]_vars

\* ---------------------------------------- a browser through the callback

\* GET /callback as a whole, for the record kv.get returned: the response,
\* and whether validateOAuthState deleted the record
GetCallback(storedDataJson, state, cookieHeader, code, reply, userOk) ==
    LET Answer(resp, deleted) == [resp |-> resp, deleted |-> deleted]
        Complete ==
            Answer([status |-> 302, body |-> NULL, setCookie |-> <<clearSessionCookie>>,
                    location |-> "redirectTo", form |-> NoForm], TRUE)
        Exchanged(r) ==
            IF r.tokens = NULL THEN Answer(r.err, TRUE)
            ELSE IF ~userOk THEN Answer(TextResponse("Failed to fetch user info", 500), TRUE)
            ELSE Complete
        Rest(oauthReqInfo) ==
            IF JsFalsy(Member(oauthReqInfo, "clientId"))
            THEN Answer(TextResponse("Invalid OAuth request data", 400), TRUE)
            ELSE IF MissingCode(code) THEN Answer(TextResponse("Missing code", 400), TRUE)
            ELSE Exchanged(TokenResult(reply))
        Bound(r) == IF ~r.ok THEN Answer(toResponse(r.err), FALSE) ELSE Rest(r.oauthReqInfo)
        Looked(r) ==
            IF ~r.ok THEN Answer(toResponse(r.err), FALSE)
            ELSE Bound(ValidateBinding(state, r.consentedStateHash, storedDataJson))
    IN  IF Falsy(state)
        THEN Answer(toResponse(OAuthError("invalid_request", "Missing state parameter", 400)),
                    FALSE)
        ELSE Looked(ValidateLookup(storedDataJson, cookieHeader))

\* The browser is sent back to GET /callback with a state; it stores the
\* cookies of the answer.
BrowserCallback ==
    \E st \in FlowTokens, code \in Codes, reply \in TokenReplies, userOk \in BOOLEAN :
        LET Returns(a) ==
                /\ kv' = IF a.deleted THEN KvDelete(kv, StateKey(st)) ELSE kv
                /\ ret' = Outcome(a.resp, NoPut, NULL)
                /\ call' = [jar |-> StoreCookies(call.jar, a.resp.setCookie),
                            sent |-> call.jar, route |-> "CALLBACK", clientId |-> NULL,
                            csrf_token |-> NULL, state |-> st]
        IN  /\ Returns(GetCallback(KvGet(kv, StateKey(st), now), st,
                                     CookieHeaderOf(call.jar), code, reply, userOk))
            /\ UNCHANGED <<now, issued, h, hist>>

SpecSession == InitConsent /\ [][BrowserGet \/ BrowserPost \/ BrowserCallback]_vars

\* ------------------------------------- a request stored and handed back

\* the state tokens crypto.randomUUID() returns to createOAuthState
StoredTokens == {"t1", "t2", "t3"}

\* the authorization requests createOAuthState is given
StoredRequests ==
    {AuthRequest("c1"), AuthRequest(OddClient), AuthRequest(""),
     JObj(<<>>),
     JObj(<< <<"responseType", JStr("code")>>, <<"clientId", JStr("c2")>>,
             <<"redirectUri", JStr("https://a.example/cb?x=1&y=2")>>,
             <<"scope", JArr(<<>>)>>, <<"state", JStr("")>> >>),
     JObj(<< <<"clientId", JStr("c1")>>,
             <<"scope", JArr(<<JStr("read"), JStr("a b")>>)>>,
             <<"meta", JObj(<< <<"n", JNum(-12)>>, <<"ok", JLit("true")>>,
                               <<"none", JLit("null")>>,
                               <<"list", JArr(<<JNum(0), JArr(<<>>), JObj(<<>>)>>)>> >>)>> >>)}

\* the Cookie headers of the callback for a state token
StoredCookies(stateToken) ==
    {"", CookiePair(bindStateToSession(stateToken)),
     csrfCookieName \o "=k1; " \o CookiePair(bindStateToSession(stateToken)),
     consentedStateCookieName \o "=" \o FlipHex(HashHex(stateToken), 1)}

\* completeAuthorization was not called
NotCompleted == [called |-> FALSE, request |-> JUndefined, scope |-> JUndefined]

InitStored ==
    /\ \E r \in StoredRequests, t \in StoredTokens :
           call = [r |-> r, t |-> t, cookie |-> NULL, stage |-> "new"]
    /\ ret = [validated |-> Pending, completed |-> NotCompleted, resp |-> NoResp]
    /\ kv = [k \in {StateKey(t) : t \in StoredTokens} |-> Absent]
    /\ now = 0
    /\ issued = {}
    /\ h = [p \in Procs |-> Idle]
    /\ hist = [t \in AllTokens |-> [succ |-> 0, refused |-> FALSE]]

\* createOAuthState stores the request under the token.
CreateStateStep ==
    /\ call.stage = "new"
    /\ LET Put(put) == kv' = KvPut(kv, put.key, put.value, put.expirationTtl, now)
       IN  Put(createOAuthState(call.r, call.t))
    /\ call' = [call EXCEPT !.stage = "stored"]
    /\ UNCHANGED <<now, issued, h, hist, ret>>

\* validateOAuthState answers a callback that carries the token.
ValidateStateStep ==
    /\ call.stage \in {"new", "stored"}
    /\ \E ck \in StoredCookies(call.t) :
           LET Result(result) ==
                   /\ ret' = [ret EXCEPT !.validated = result]
                   /\ kv' = IF result.ok THEN KvDelete(kv, StateKey(call.t)) ELSE kv
               Looked(storedDataJson, lookup) ==
                   IF ~lookup.ok THEN Result(lookup)
                   ELSE Result(ValidateBinding(call.t, lookup.consentedStateHash,
                                               storedDataJson))
               Stored(storedDataJson) ==
                   Looked(storedDataJson, ValidateLookup(storedDataJson, ck))
           IN  /\ Stored(KvGet(kv, StateKey(call.t), now))
               /\ call' = [call EXCEPT !.stage = "validated", !.cookie = ck]
    /\ UNCHANGED <<now, issued, h, hist>>

\* GET /callback goes on after validateOAuthState: the error is answered,
\* or the client id is checked and, when the upstream calls succeed,
\* completeAuthorization is called.
CallbackRestStep ==
    /\ call.stage = "validated"
    /\ call' = [call EXCEPT !.stage = "done"]
    /\ \E upstream \in BOOLEAN :
           LET Rest(oauthReqInfo) ==
                   IF JsFalsy(Member(oauthReqInfo, "clientId"))
                   THEN [ret EXCEPT !.resp = TextResponse("Invalid OAuth request data", 400)]
                   ELSE IF ~upstream
                   THEN [ret EXCEPT !.resp = TextResponse("Failed to fetch user info", 500)]
                   ELSE [ret EXCEPT
                            !.completed = [called |-> TRUE, request |-> oauthReqInfo,
                                           scope |-> Member(oauthReqInfo, "scope")],
                            !.resp = [status |-> 302, body |-> NULL,
                                      setCookie |-> <<clearSessionCookie>>,
                                      location |-> "redirectTo", form |-> NoForm]]
           IN  ret' = IF ~ret.validated.ok
                      THEN [ret EXCEPT !.resp = toResponse(ret.validated.err)]
                      ELSE Rest(ret.validated.oauthReqInfo)
    /\ UNCHANGED <<kv, now, issued, h, hist>>

SpecStored ==
    InitStored /\ [][CreateStateStep \/ ValidateStateStep \/ CallbackRestStep]_vars

\* ------------------------------------ a record the worker did not write

\* texts that are no JSON document
UnparseableTexts ==
    {"{", "{\"clientId\":\"c1\"", "not json", "[1,]", "{'clientId':'c1'}", "undefined"}

\* the texts the store holds under the key of a state: texts that do not
\* parse, the empty text, and JSON documents
HeldTexts == UnparseableTexts \cup {"", "{\"clientId\":\"c1\"}", "\"c1\"", "{}"}

\* The namespace holds a text under the key of a state token, left by
\* another writer of the namespace.
InitHeld ==
    /\ \E text \in HeldTexts, t \in StoredTokens :
           /\ call = [r |-> text, t |-> t, cookie |-> NULL, stage |-> "stored"]
           /\ kv = [k \in {StateKey(u) : u \in StoredTokens} |->
                       IF k = StateKey(t) THEN [value |-> text, exp |-> StateTTL]
                       ELSE Absent]
    /\ ret = [validated |-> Pending, completed |-> NotCompleted, resp |-> NoResp]
    /\ now = 0
    /\ issued = {}
    /\ h = [p \in Procs |-> Idle]
    /\ hist = [t \in AllTokens |-> [succ |-> 0, refused |-> FALSE]]

SpecHeld == InitHeld /\ [][ValidateStateStep \/ CallbackRestStep]_vars

\* ------------------------------------------- two flows side by side

\* the authorization requests of the two flows
FlowRequests == {AuthRequest(c) : c \in FlowClients}

\* no createOAuthState call yet
NoCall == [oauthReqInfo |-> JUndefined, stateToken |-> NULL]

InitFlows ==
    /\ kv = [k \in {StateKey(t) : t \in FlowTokens} |-> Absent]
    /\ now = 0
    /\ issued = {}
    /\ h = [p \in Procs |-> Idle]
    /\ hist = [t \in FlowTokens |-> [succ |-> 0, refused |-> FALSE]]
    /\ call = NoCall
    /\ ret = [t \in FlowTokens |-> JUndefined]

\* createOAuthState(oauthReqInfo, kv) runs for a token crypto.randomUUID()
\* had not returned before, and returns it. `call` keeps the call and its
\* result, `ret` the request each returned token was created for.
FlowCreate ==
    \E oauthReqInfo \in FlowRequests, t \in FlowTokens \ issued :
        LET Put(put) == kv' = KvPut(kv, put.key, put.value, put.expirationTtl, now)
        IN  /\ Put(createOAuthState(oauthReqInfo, t))
            /\ issued' = issued \cup {t}
            /\ call' = [oauthReqInfo |-> oauthReqInfo, stateToken |-> t]
            /\ ret' = [ret EXCEPT ![t] = oauthReqInfo]
            /\ UNCHANGED <<now, h, hist>>

\* the Cookie headers of the callbacks: none, or the binding cookie of a flow
FlowCookies == {""} \cup {CookiePair(bindStateToSession(t)) : t \in FlowTokens}

\* A callback comes in with the state token of one of the flows;
\* validateOAuthState asks the store for its record.
FlowCbStart(p) ==
    /\ h[p].pc \in {"idle", "done"}
    /\ \E st \in FlowTokens :
          h' = [h EXCEPT ![p] = [Idle EXCEPT !.pc = "get", !.state = st]]
    /\ UNCHANGED <<kv, now, issued, hist, call, ret>>

\* kv.get answers; the binding cookie is read; the digest is asked for.
FlowGet(p) ==
    /\ h[p].pc = "get"
    /\ \E ck \in FlowCookies :
          LET Looked(slot, r) ==
                  h' = [h EXCEPT ![p] =
                          IF r.ok
                          THEN [slot EXCEPT !.pc = "digest", !.hash = r.consentedStateHash]
                          ELSE Rejected(slot, r.err)]
              Got(storedDataJson) ==
                  Looked([h[p] EXCEPT !.cookie = ck, !.stored = storedDataJson],
                         ValidateLookup(storedDataJson, ck))
          IN  Got(KvGet(kv, StateKey(h[p].state), now))
    /\ UNCHANGED <<kv, now, issued, hist, call, ret>>

\* The digest answers; it is compared with the cookie and the payload is
\* parsed; kv.delete is asked for.
FlowDigest(p) ==
    /\ h[p].pc = "digest"
    /\ LET Compared(r) ==
               h' = [h EXCEPT ![p] =
                       IF r.ok
                       THEN [h[p] EXCEPT !.pc = "delete", !.info = r.oauthReqInfo]
                       ELSE Rejected(h[p], r.err)]
       IN  Compared(ValidateBinding(h[p].state, h[p].hash, h[p].stored))
    /\ UNCHANGED <<kv, now, issued, hist, call, ret>>

\* kv.delete answers and validateOAuthState returns the request.
FlowDelete(p) ==
    /\ h[p].pc = "delete"
    /\ kv' = KvDelete(kv, StateKey(h[p].state))
    /\ h' = [h EXCEPT ![p] = [h[p] EXCEPT !.pc = "done", !.verdict = "ok"]]
    /\ UNCHANGED <<now, issued, hist, call, ret>>

\* the steps of validateOAuthState in a slot
FlowValidate(p) == FlowGet(p) \/ FlowDigest(p) \/ FlowDelete(p)

NextFlows ==
    \/ FlowCreate
    \/ Tick
    \/ \E p \in Procs : FlowCbStart(p) \/ FlowValidate(p)

SpecFlows == InitFlows /\ [][NextFlows]_vars

\* ------------------------------------------ the Set-Cookie texts alone

\* no operation has run
NoOperation ==
    [op |-> "none", token |-> NULL, form |-> NULL, cookieHeader |-> NULL,
     clientId |-> NULL, secret |-> NULL]

InitCookies ==
    /\ call = NoOperation
    /\ ret = NULL
    /\ kv = [k \in KvKeys |-> Absent]
    /\ now = 0
    /\ issued = {}
    /\ h = [p \in Procs |-> Idle]
    /\ hist = [t \in AllTokens |-> [succ |-> 0, refused |-> FALSE]]

\* `call` names the operation and its inputs, `ret` is the Set-Cookie text
\* it produced
Produced(op, setCookie) ==
    /\ call = NoOperation
    /\ call' = op
    /\ ret' = setCookie
    /\ UNCHANGED <<kv, now, issued, h, hist>>

\* generateCSRFProtection issues the CSRF cookie.
IssueCsrfStep ==
    \E k \in CsrfTokens :
        Produced([NoOperation EXCEPT !.op = "generateCSRFProtection", !.token = k],
                 generateCSRFProtection(k).setCookie)

\* validateCSRFToken accepts a form and returns clearCookie.
ClearCsrfStep ==
    \E c \in CsrfCalls :
        LET Cleared(r) ==
                /\ r.ok
                /\ Produced([NoOperation EXCEPT !.op = "validateCSRFToken",
                                                !.form = c.form,
                                                !.cookieHeader = c.cookieHeader],
                            r.clearCookie)
        IN  Cleared(validateCSRFToken(c.form, c.cookieHeader))

\* bindStateToSession sets the binding cookie.
BindStep ==
    \E t \in StoredTokens \cup {UnknownToken} :
        Produced([NoOperation EXCEPT !.op = "bindStateToSession", !.token = t],
                 bindStateToSession(t))

\* validateOAuthState accepts a callback and returns clearCookie.
ClearBindingStep ==
    \E t \in StoredTokens \cup {UnknownToken} :
        Produced([NoOperation EXCEPT !.op = "validateOAuthState", !.token = t,
                      !.cookieHeader = CookiePair(bindStateToSession(t))],
                 clearSessionCookie)

\* addApprovedClient returns the approved-clients cookie.
ApproveStep ==
    \E c \in StartCookies, id \in AddedClients, s \in CookieSecrets :
        LET Set(r) ==
                /\ r.ok
                /\ Produced([NoOperation EXCEPT !.op = "addApprovedClient",
                                                !.cookieHeader = c.cookie,
                                                !.clientId = id, !.secret = s],
                            r.val)
        IN  Set(addApprovedClient(c.cookie, id, s))

SpecCookies ==
    InitCookies
    /\ [][IssueCsrfStep \/ ClearCsrfStep \/ BindStep \/ ClearBindingStep \/ ApproveStep]_vars

\* --------------------------------------------------------- sanitizeUrl

\* the character of code 0x7f
DEL == ""

\* String.prototype.charCodeAt for one character
charCodeAt(c) ==
    IF c = "\t" THEN 9 ELSE IF c = "\n" THEN 10 ELSE IF c = "\f" THEN 12
    ELSE IF c = "\r" THEN 13 ELSE IF c = DEL THEN 127 ELSE Ord(c)

\* sanitizeUrl's loop: some character has a code in 0x00..0x1f or 0x7f..0x9f
HasControlCharacter(normalized) ==
    \E i \in 1..Len(normalized) :
        LET InRange(code) ==
                (code >= 0 /\ code <= 31) \/ (code >= 127 /\ code <= 159)
        IN  InRange(charCodeAt(Ch(normalized, i)))

IsAlpha(c) == (Ord(c) >= 65 /\ Ord(c) <= 90) \/ (Ord(c) >= 97 /\ Ord(c) <= 122)

\* String.prototype.toLowerCase on ASCII
RECURSIVE toLowerCase(_)
toLowerCase(text) ==
    IF text = "" THEN ""
    ELSE (IF Ord(Ch(text, 1)) >= 65 /\ Ord(Ch(text, 1)) <= 90
          THEN Chr(Ord(Ch(text, 1)) + 32)
          ELSE Ch(text, 1))
         \o toLowerCase(SubSeq(text, 2, Len(text)))

\* the position of the first character of `text` that is in `stops`, counted
\* from position `from`; Len(text) + 1 when there is none
FirstOf(text, from, stops) ==
    IF \E i \in from..Len(text) : Ch(text, i) \in stops
    THEN CHOOSE i \in from..Len(text) :
             /\ Ch(text, i) \in stops
             /\ \A j \in from..(i - 1) : Ch(text, j) \notin stops
    ELSE Len(text) + 1

\* the URL parser's scheme: a letter, then letters, digits, '+', '-', '.',
\* up to the first ':'. Without a base URL anything else is a failure.
UrlScheme(text) ==
    LET colon == FirstOf(text, 1, {":"})
    IN  IF /\ colon >= 2 /\ colon <= Len(text)
           /\ IsAlpha(Ch(text, 1))
           /\ \A i \in 2..(colon - 1) :
                  IsAlpha(Ch(text, i)) \/ IsDigit(Ch(text, i)) \/ Ch(text, i) \in {"+", "-", "."}
        THEN [ok |-> TRUE, val |-> SubSeq(text, 1, colon - 1), next |-> colon + 1]
        ELSE Fail

\* the characters a host cannot hold (IPv6 literals, numeric hosts and
\* percent-encoded hosts are not among the inputs of the model)
ForbiddenHostCharacters ==
    {" ", "#", "/", ":", "<", ">", "?", "@", "[", "\\", "]", "^", "|", "%"}

\* the URL parser on what follows "http:" or "https:": the slashes are
\* skipped, the authority runs to the first of / \ ? #, the credentials end
\* at its last '@', the host runs to the first ':' and the port is the
\* rest. The host must not be empty nor hold a forbidden character, the
\* port must be digits and at most 65535.
SpecialAuthorityOk(text, from) ==
    LET Port(port) ==
            /\ \A i \in 1..Len(port) : IsDigit(Ch(port, i))
            /\ Len(port) <= 5
            /\ ParseDigits(port, 1, 0).val.v <= 65535
        Host(host) ==
            /\ host # ""
            /\ \A i \in 1..Len(host) : Ch(host, i) \notin ForbiddenHostCharacters
        HostPort(hostport, colon) ==
            /\ Host(SubSeq(hostport, 1, colon - 1))
            /\ Port(SubSeq(hostport, colon + 1, Len(hostport)))
        Authority(authority) ==
            LET ats == {i \in 1..Len(authority) : Ch(authority, i) = "@"}
                Last(set) == IF set = {} THEN 0 ELSE CHOOSE i \in set : \A j \in set : j <= i
                After(hostport) == HostPort(hostport, FirstOf(hostport, 1, {":"}))
            IN  After(SubSeq(authority, Last(ats) + 1, Len(authority)))
        Slashes(start) ==
            Authority(SubSeq(text, start, FirstOf(text, start, {"/", "\\", "?", "#"}) - 1))
        NotSlash == ({Ch(Printable, i) : i \in 1..Len(Printable)}
                     \cup {Ch(PrintableHigh, i) : i \in 1..Len(PrintableHigh)})
                    \ {"/", "\\"}
    IN  Slashes(FirstOf(text, from, NotSlash))

\* new URL(text) without a base: [ok, protocol], or a failure (TypeError).
\* A scheme other than http and https parses whatever follows it.
NewURL(text) ==
    LET Parsed(scheme) ==
            IF ~scheme.ok THEN Fail
            ELSE IF toLowerCase(scheme.val) \in {"http", "https"}
                    /\ ~SpecialAuthorityOk(text, scheme.next)
            THEN Fail
            ELSE [ok |-> TRUE, protocol |-> toLowerCase(scheme.val) \o ":"]
    IN  Parsed(UrlScheme(text))

\* the faulty variant without the list of allowed schemes
sanitizeUrl_AnyScheme(url) ==
    IF Len(Trim(url)) = 0 THEN ""
    ELSE IF HasControlCharacter(Trim(url)) THEN ""
    ELSE IF ~NewURL(Trim(url)).ok THEN ""
    ELSE Trim(url)

\* sanitizeUrl(url)
sanitizeUrl(url) ==
    LET normalized == Trim(url)
        allowedSchemes == {"https", "http"}
        Checked(parsedUrl) ==
            IF ~parsedUrl.ok THEN ""
            ELSE IF toLowerCase(SubSeq(parsedUrl.protocol, 1, Len(parsedUrl.protocol) - 1))
                        \notin allowedSchemes
            THEN ""
            ELSE normalized
    IN  IF Len(normalized) = 0 THEN ""
        ELSE IF HasControlCharacter(normalized) THEN ""
        ELSE Checked(NewURL(normalized))

\* URL texts with what they are: "web" for an http or https URL, and for the
\* others what is wrong with them
UrlTexts ==
    {[kind |-> "web", core |-> c] :
        c \in {"https://example.com/logo.png", "http://a.example", "HTTPS://EXAMPLE.COM/",
               "hTtP://a.example/x", "http:a.example", "https:\\\\a.example\\x",
               "http://user:pw@a.example:8080/p?q=1#f", "https://a.example/a b",
               "http://a.example/<script>alert(1)</script>", "https://a.example:/",
               "http://a.example?javascript:alert(1)"}}
    \cup {[kind |-> "scheme", core |-> c] :
        c \in {"javascript:alert(1)", "JavaScript:alert(1)", "data:text/html,<b>x</b>",
               "ftp://a.example/x", "file:///etc/passwd", "mailto:a@b.example",
               "vbscript:x", "httpx://a.example", "blob:https://a.example/1"}}
    \cup {[kind |-> "unparseable", core |-> c] :
        c \in {"//a.example/x", "/logo.png", "example.com", "http", "http://", "https:",
               "https://exa mple.com", "http://a.example:99999", "http://a.example:8x",
               "1http://a.example", "http://a<b.example", "://a.example", "http://user@",
               "ht tp://a.example", "http://:80"}}
    \cup {[kind |-> "control", core |-> c] :
        c \in {"https://a.example/\tx", "java\nscript:alert(1)", "ht\ttp://a.example",
               "https://a.example/\r\nSet-Cookie: x=1", "https://a.example/" \o DEL,
               "http://a.example/\fx"}}
    \cup {[kind |-> "empty", core |-> ""]}

\* the white space before and after the URL text
UrlMargins == {"", " ", "\t\n ", "\r\n"}

InitUrl ==
    /\ \E u \in UrlTexts, lead \in UrlMargins, trail \in UrlMargins :
           call = [url |-> lead \o u.core \o trail, core |-> u.core, kind |-> u.kind,
                   returned |-> FALSE]
    /\ ret = NULL
    /\ kv = [k \in KvKeys |-> Absent]
    /\ now = 0
    /\ issued = {}
    /\ h = [p \in Procs |-> Idle]
    /\ hist = [t \in AllTokens |-> [succ |-> 0, refused |-> FALSE]]

\* sanitizeUrl returns.
SanitizeUrlStep ==
    /\ ~call.returned
    /\ ret' = sanitizeUrl(call.url)
    /\ call' = [call EXCEPT !.returned = TRUE]
    /\ UNCHANGED <<kv, now, issued, h, hist>>

SpecUrl == InitUrl /\ [][SanitizeUrlStep]_vars

\* ----------------------------------------------- fetchUpstreamAuthToken alone

\* String(value) of a parsed member, NULL when the member is falsy
TextOf(value) ==
    IF JsFalsy(value) THEN NULL
    ELSE IF value.t = "str" THEN value.v
    ELSE JSONstringify(value)

\* fetchUpstreamAuthToken({code, ...}) for the reply of the token endpoint,
\* [ok, body]: the tuple [tokens, err] it returns, the number of requests it
\* sent upstream, and the exception it threw (NULL when it returned).
\* resp.json() throws a SyntaxError on a body that is no JSON, and reading
\* body.error throws a TypeError when the body is the JSON null.
fetchUpstreamAuthToken(code, reply) ==
    LET Result(r, sent, thrown) ==
            [tokens |-> r.tokens, err |-> r.err, sent |-> sent, thrown |-> thrown]
        Nothing == [tokens |-> NULL, err |-> NoResp]
        Body(parsed) ==
            IF ~parsed.ok THEN Result(Nothing, 1, "SyntaxError")
            ELSE IF parsed.val = JLit("null") THEN Result(Nothing, 1, "TypeError")
            ELSE Result(TokenResult([ok |-> TRUE,
                                     error |-> TextOf(Member(parsed.val, "error")),
                                     access_token |->
                                         TextOf(Member(parsed.val, "access_token"))]),
                        1, NULL)
    IN  IF MissingCode(code)
        THEN Result([tokens |-> NULL, err |-> TextResponse("Missing code", 400)], 0, NULL)
        ELSE IF ~reply.ok
        THEN Result(TokenResult([ok |-> FALSE, error |-> NULL, access_token |-> NULL]),
                    1, NULL)
        ELSE Body(JSONparse(reply.body))

\* the bodies the token endpoint answers with
TokenBodies ==
    {"{\"access_token\":\"a1\"}", "{\"access_token\":\"a1\",\"refresh_token\":\"r1\"}",
     "{\"error\":\"invalid_grant\"}", "{\"error\":\"invalid_grant\",\"access_token\":\"a1\"}",
     "{}", "{\"access_token\":\"\"}", "{\"error\":\"\"}",
     "{\"error\":\"\",\"access_token\":\"a1\"}", "{\"access_token\":null}",
     "{\"error\":null,\"access_token\":\"a2\"}", "\"text\"", "[]", "7", "null",
     "<html>Bad Gateway</html>", "", "{\"access_token\":\"a1\""}

InitToken ==
    /\ \E code \in {NULL, "", "g1"}, ok \in BOOLEAN, body \in TokenBodies :
           call = [code |-> code, reply |-> [ok |-> ok, body |-> body], returned |-> FALSE]
    /\ ret = [tokens |-> NULL, err |-> NoResp, sent |-> 0, thrown |-> NULL]
    /\ kv = [k \in KvKeys |-> Absent]
    /\ now = 0
    /\ issued = {}
    /\ h = [p \in Procs |-> Idle]
    /\ hist = [t \in AllTokens |-> [succ |-> 0, refused |-> FALSE]]

\* fetchUpstreamAuthToken returns or throws.
FetchTokenStep ==
    /\ ~call.returned
    /\ ret' = fetchUpstreamAuthToken(call.code, call.reply)
    /\ call' = [call EXCEPT !.returned = TRUE]
    /\ UNCHANGED <<kv, now, issued, h, hist>>

SpecToken == InitToken /\ [][FetchTokenStep]_vars

\* ------------------------------------------------- the service worker (sw.js)

\* In the service worker's specification kv is the origin's CacheStorage
\* (the caches in the order they were created, each [name, entries] with
\* entries a set of [url, response]), h the fetch events in flight, call the
\* worker's life cycle with the caches.delete calls still running, and hist
\* the CacheStorage as caches.keys() saw it in the activate handler.

Origin == "https://skinn.example"

CACHE_NAME == "skinn-fonts-v1"

FONT_URLS ==
    <<"/fonts/Pretendard-Regular.woff2", "/fonts/Pretendard-Medium.woff2",
      "/fonts/Pretendard-SemiBold.woff2", "/fonts/Pretendard-Bold.woff2",
      "/fonts/Pretendard-ExtraBold.woff2", "/fonts/Pretendard-Black.woff2">>

\* String.prototype.includes and endsWith
Includes(text, part) ==
    \E i \in 1..(Len(text) - Len(part) + 1) : SubSeq(text, i, i + Len(part) - 1) = part

EndsWith(text, suffix) ==
    /\ Len(suffix) <= Len(text)
    /\ SubSeq(text, Len(text) - Len(suffix) + 1, Len(text)) = suffix

\* new URL(url).pathname of an absolute http(s) URL: from the first '/'
\* after the host to the first '?' or '#'
Pathname(url) ==
    LET Path(start) ==
            IF start > Len(url) \/ Ch(url, start) # "/" THEN "/"
            ELSE SubSeq(url, start, FirstOf(url, start, {"?", "#"}) - 1)
    IN  Path(FirstOf(url, FirstOf(url, 1, {":"}) + 3, {"/", "?", "#"}))

\* the faulty variant that takes every request for a font
IsFontRequest_Always(url) == TRUE

\* the fetch listener's condition on the request's URL
IsFontRequest(url) ==
    Includes(Pathname(url), "/fonts/") /\ EndsWith(Pathname(url), ".woff2")

\* Response.ok
IsOk(response) == response.status >= 200 /\ response.status <= 299

\* undefined: caches.match found nothing, or no response yet
Undefined == [status |-> 0, body |-> NULL]

\* fetch() rejected
NetworkFailure == [status |-> 0, body |-> "TypeError"]

HasCache(cacheStorage, name) ==
    \E i \in 1..Len(cacheStorage) : cacheStorage[i].name = name

\* caches.keys()
CachesKeys(cacheStorage) == {cacheStorage[i].name : i \in 1..Len(cacheStorage)}

\* caches.open(name): the cache is created when there is none
CachesOpen(cacheStorage, name) ==
    IF HasCache(cacheStorage, name) THEN cacheStorage
    ELSE Append(cacheStorage, [name |-> name, entries |-> {}])

\* caches.delete(name)
CachesDelete(cacheStorage, name) ==
    SelectSeq(cacheStorage, LAMBDA c : c.name # name)

\* caches.match(request): the response of the first cache, in the order of
\* creation, that holds an entry for the URL; only a GET request matches
CachesMatch(cacheStorage, request) ==
    LET holding == {i \in 1..Len(cacheStorage) :
                       \E e \in cacheStorage[i].entries : e.url = request.url}
        First(set) == CHOOSE i \in set : \A j \in set : i <= j
        Found(entries) == (CHOOSE e \in entries : e.url = request.url).response
    IN  IF request.method # "GET" \/ holding = {} THEN Undefined
        ELSE Found(cacheStorage[First(holding)].entries)

\* cache.put(request, response) rejects for a request that is no GET and
\* for a partial (206) response
PutRejects(request, response) == request.method # "GET" \/ response.status = 206

\* cache.put(request, response) on the open cache `name`: the entry of the
\* URL is replaced
CachePut(cacheStorage, name, url, response) ==
    [i \in 1..Len(cacheStorage) |->
        IF cacheStorage[i].name # name THEN cacheStorage[i]
        ELSE [cacheStorage[i] EXCEPT
                 !.entries = {e \in @ : e.url # url}
                             \cup {[url |-> url, response |-> response]}]]

\* cache.addAll(FONT_URLS) when every font was fetched with an ok response
RECURSIVE CacheAddAll(_, _, _)
CacheAddAll(cacheStorage, name, urls) ==
    IF urls = <<>> THEN cacheStorage
    ELSE CacheAddAll(CachePut(cacheStorage, name, Origin \o urls[1],
                              [status |-> 200, body |-> "precached"]),
                     name, Tail(urls))

\* the faulty variant that deletes the current cache too
ShouldDelete_AllSkinn(name) == StartsWith(name, "skinn-")

\* the activate listener's filter
ShouldDelete(name) == StartsWith(name, "skinn-") /\ name # CACHE_NAME

\* a cache with one entry
CacheOf(name, url, status, body) ==
    [name |-> name,
     entries |-> {[url |-> Origin \o url, response |-> [status |-> status, body |-> body]]}]

EmptyCache(name) == [name |-> name, entries |-> {}]

\* the CacheStorage the worker finds: nothing, the caches of earlier
\* versions, caches of the page's own
StartCaches ==
    {<<>>,
     <<CacheOf("skinn-fonts-v0", "/fonts/Pretendard-Regular.woff2", 200, "v0")>>,
     <<CacheOf("skinn-fonts-v1", "/fonts/Extra.woff2", 200, "kept"),
       EmptyCache("skinn-fonts-v10"), EmptyCache("skinn-")>>,
     <<CacheOf("other-cache", "/fonts/Extra.woff2", 404, "page"),
       CacheOf("skinn-static-v2", "/css/app.css", 200, "css"),
       EmptyCache("Skinn-fonts-v0"), EmptyCache("myskinn-fonts"), EmptyCache("skinn")>>,
     <<EmptyCache("skinn-fonts-v0"), EmptyCache("other-cache"),
       EmptyCache("skinn-fonts-v1"), EmptyCache("skinn-fonts-v2")>>}

\* the requests of the pages, with whether each is a font request
SwRequests ==
    {[method |-> "GET", url |-> Origin \o "/fonts/Pretendard-Regular.woff2", font |-> TRUE],
     [method |-> "GET", url |-> Origin \o "/fonts/Extra.woff2", font |-> TRUE],
     [method |-> "GET", url |-> Origin \o "/fonts/Extra.woff2?v=2", font |-> TRUE],
     [method |-> "HEAD", url |-> Origin \o "/fonts/Extra.woff2", font |-> TRUE],
     [method |-> "GET", url |-> "https://cdn.example/a/fonts/b.woff2", font |-> TRUE],
     [method |-> "GET", url |-> Origin \o "/css/app.css", font |-> FALSE],
     [method |-> "GET", url |-> Origin \o "/fonts/readme.txt", font |-> FALSE],
     [method |-> "GET", url |-> Origin \o "/static/fonts.woff2", font |-> FALSE],
     [method |-> "GET", url |-> Origin \o "/fonts/X.WOFF2", font |-> FALSE],
     [method |-> "GET", url |-> Origin \o "/page?x=/fonts/a.woff2", font |-> FALSE]}

\* what the network answers
NetworkReplies ==
    {[status |-> 200, body |-> "net"], [status |-> 206, body |-> "part"],
     [status |-> 404, body |-> "missing"], NetworkFailure}

NoRequest == [method |-> NULL, url |-> NULL, font |-> FALSE]

\* a slot without a fetch event
IdleEvent ==
    [pc          |-> "idle",     \* where the listener stands
     request     |-> NoRequest,  \* event.request
     intercepted |-> FALSE,      \* event.respondWith was called
     matched     |-> Undefined,  \* what caches.match answered
     resp        |-> Undefined,  \* the response the page got from the worker
     fetches     |-> 0,          \* the network fetches the listener made
     put         |-> "none"]     \* the cache write: none, pending, stored,
                                 \* rejected, or dropped with the worker

InitSW ==
    /\ kv \in StartCaches
    /\ call = [phase |-> "parsed", deleting |-> {}]
    /\ hist = <<>>
    /\ h = [p \in Procs |-> IdleEvent]
    /\ ret = NULL
    /\ issued = {}
    /\ now = 0

\* The install listener: the cache is opened and cache.addAll(FONT_URLS)
\* stores the six fonts, or stores nothing and rejects when one of them
\* cannot be fetched with an ok response; the worker is then discarded.
InstallStep ==
    /\ call.phase = "parsed"
    /\ \E fetched \in BOOLEAN :
          /\ kv' = IF fetched
                   THEN CacheAddAll(CachesOpen(kv, CACHE_NAME), CACHE_NAME, FONT_URLS)
                   ELSE CachesOpen(kv, CACHE_NAME)
          /\ call' = [call EXCEPT !.phase = IF fetched THEN "installed" ELSE "redundant"]
    /\ UNCHANGED <<now, issued, h, hist, ret>>

\* The activate listener: caches.keys() answers, and caches.delete is
\* called for every name the filter lets through.
ActivateKeys ==
    /\ call.phase = "installed"
    /\ hist' = kv
    /\ call' = [phase |-> "activating",
                deleting |-> {name \in CachesKeys(kv) : ShouldDelete(name)}]
    /\ UNCHANGED <<kv, now, issued, h, ret>>

\* One of the caches.delete calls answers.
ActivateDelete ==
    /\ call.phase = "activating"
    /\ \E name \in call.deleting :
          /\ kv' = CachesDelete(kv, name)
          /\ call' = [call EXCEPT !.deleting = @ \ {name}]
    /\ UNCHANGED <<now, issued, h, hist, ret>>

\* Promise.all settles: the activate handler has finished.
ActivateDone ==
    /\ call.phase = "activating" /\ call.deleting = {}
    /\ call' = [call EXCEPT !.phase = "activated"]
    /\ UNCHANGED <<kv, now, issued, h, hist, ret>>

\* A fetch event comes in: the listener calls respondWith for a font
\* request and returns without it for any other.
FetchEvent(p) ==
    /\ call.phase = "activated"
    /\ h[p].pc \in {"idle", "done"} /\ h[p].put # "pending"
    /\ \E request \in SwRequests :
          h' = [h EXCEPT ![p] =
                  IF IsFontRequest(request.url)
                  THEN [IdleEvent EXCEPT !.pc = "match", !.request = request,
                                         !.intercepted = TRUE]
                  ELSE [IdleEvent EXCEPT !.pc = "done", !.request = request]]
    /\ UNCHANGED <<kv, now, issued, hist, call, ret>>

\* caches.match answers: a cached response is returned, or the network is
\* asked.
MatchStep(p) ==
    /\ h[p].pc = "match"
    /\ LET Matched(cachedResponse) ==
               h' = [h EXCEPT ![p] =
                       IF cachedResponse # Undefined
                       THEN [h[p] EXCEPT !.pc = "done", !.matched = cachedResponse,
                                         !.resp = cachedResponse]
                       ELSE [h[p] EXCEPT !.pc = "fetch"]]
       IN  Matched(CachesMatch(kv, h[p].request))
    /\ UNCHANGED <<kv, now, issued, hist, call, ret>>

\* fetch answers: the response is returned to the page, and when it is ok
\* a copy is handed to caches.open(CACHE_NAME).then(cache.put), which nobody
\* waits for.
NetworkStep(p) ==
    /\ h[p].pc = "fetch"
    /\ \E response \in NetworkReplies :
          h' = [h EXCEPT ![p] =
                  [h[p] EXCEPT !.pc = "done", !.resp = response, !.fetches = @ + 1,
                               !.put = IF response # NetworkFailure /\ IsOk(response)
                                       THEN "pending" ELSE "none"]]
    /\ UNCHANGED <<kv, now, issued, hist, call, ret>>

\* The cache is opened and cache.put answers: the copy is stored, or the
\* put is rejected.
PutStep(p) ==
    /\ h[p].put = "pending"
    /\ IF PutRejects(h[p].request, h[p].resp)
       THEN /\ kv' = CachesOpen(kv, CACHE_NAME)
            /\ h' = [h EXCEPT ![p].put = "rejected"]
       ELSE /\ kv' = CachePut(CachesOpen(kv, CACHE_NAME), CACHE_NAME,
                              h[p].request.url, h[p].resp)
            /\ h' = [h EXCEPT ![p].put = "stored"]
    /\ UNCHANGED <<now, issued, hist, call, ret>>

\* The browser stops the idle worker: no event holds it, and the cache
\* writes nobody waits for are lost.
Terminate ==
    /\ call.phase = "activated"
    /\ \A p \in Procs : h[p].pc \in {"idle", "done"}
    /\ \E p \in Procs : h[p].put = "pending"
    /\ h' = [p \in Procs |->
                IF h[p].put = "pending" THEN [h[p] EXCEPT !.put = "dropped"] ELSE h[p]]
    /\ UNCHANGED <<kv, now, issued, hist, call, ret>>

NextSW ==
    \/ InstallStep
    \/ ActivateKeys
    \/ ActivateDelete
    \/ ActivateDone
    \/ Terminate
    \/ \E p \in Procs : FetchEvent(p) \/ MatchStep(p) \/ NetworkStep(p) \/ PutStep(p)

SpecSW == InitSW /\ [][NextSW]_vars

\* ------------------------------------------- properties of the callback

\* validateOAuthState has returned or thrown in slot p
Validated(p) == h[p].verdict # "none"

\* the value of the session-binding cookie in each Cookie header a callback
\* can carry (NULL when it holds none)
BindingIn == [ck \in CallbackCookies |-> CookieValue(ck, consentedStateCookieName)]

\* the value of the session-binding cookie the request of slot p carries
BindingOf(p) == BindingIn[h[p].cookie]

\* the value bindStateToSession put in the cookie for each state
DigestOf == [t \in AllTokens |-> HashHex(t)]

\* the request of slot p carries the cookie bindStateToSession set for its state
Matching(p) == h[p].cookie # NULL /\ BindingOf(p) = DigestOf[h[p].state]

InvalidOrExpired == "Invalid or expired state"

MissingBinding == "Missing session binding cookie - authorization flow must be restarted"

SessionMismatch == "State token does not match session - possible CSRF attack detected"

\* C1: when callbacks are served one after the other, the validations of a
\* created state token that carry the matching binding cookie succeed at most
\* once: the first succeeds when kv.get still returns the record, and every
\* one that comes after a success fails with 'Invalid or expired state'.
C1_ExactlyOneSucceeds ==
    \A p \in Procs :
        (Validated(p) /\ h[p].state \in Tokens /\ Matching(p)) =>
            /\ hist[h[p].state].succ <= 1
            /\ (h[p].prior = 0 /\ h[p].live) => h[p].verdict = "ok"
            /\ (h[p].prior >= 1 \/ ~h[p].live) => h[p].verdict = InvalidOrExpired

\* a second validation with the matching cookie, right after the first
\* succeeded and before any time passed, was refused as not found
C1_Witness ==
    \E p \in Procs :
        /\ Validated(p) /\ h[p].state \in Tokens /\ Matching(p)
        /\ h[p].prior = 1 /\ now = 0
        /\ h[p].verdict = InvalidOrExpired
        /\ h[p].resp.status = 400

\* C2 (as stated): no two requests that overlap hold a successful validation
\* of the same state token.
C2_NeverBothSucceed ==
    \A p, q \in Procs :
        (p # q /\ h[p].state = h[q].state /\ h[p].prior = 0 /\ h[q].prior = 0)
            => ~(h[p].verdict = "ok" /\ h[q].verdict = "ok")

\* C3: when kv.get returned the record of the state, validateOAuthState
\* succeeds exactly when the binding cookie's value is the lower-case hex
\* SHA-256 of the state; any other non-empty value is refused as a session
\* mismatch (an empty value counts as no cookie).
C3_BindingIff ==
    \A p \in Procs :
        (Validated(p) /\ h[p].live) =>
            /\ h[p].verdict = "ok" <=> BindingOf(p) = DigestOf[h[p].state]
            /\ (~Falsy(BindingOf(p)) /\ BindingOf(p) # DigestOf[h[p].state])
                   => /\ h[p].verdict = SessionMismatch
                      /\ h[p].resp.status = 400
            /\ Falsy(BindingOf(p)) => h[p].verdict = MissingBinding

\* the record was there and the cookie differed from the digest in its last
\* character only
C3_Witness ==
    \E p \in Procs :
        /\ Validated(p) /\ h[p].live
        /\ BindingOf(p) = FlipHex(DigestOf[h[p].state], 64)
        /\ h[p].verdict = SessionMismatch

\* C5: a step of a callback in which validateOAuthState has not succeeded
\* leaves the store as it was; and once a validation of a state was refused
\* while its record was there, the record stays until a validation succeeds.
C5_FailureKeepsStore ==
    /\ [][\A p \in Procs : (h'[p] # h[p] /\ h'[p].verdict # "ok") => kv' = kv]_vars
    /\ [](\A t \in AllTokens :
             (hist[t].refused /\ hist[t].succ = 0) => kv[StateKey(t)] # Absent)

\* a callback without the binding cookie was refused while the record was
\* there, and the callback with the right cookie then succeeded
C5_Witness ==
    \E p, q \in Procs :
        /\ p # q /\ h[p].state = h[q].state
        /\ h[q].live /\ BindingOf(q) = NULL /\ h[q].verdict = MissingBinding
        /\ Matching(p) /\ h[p].verdict = "ok"

\* C6: the upstream calls of a callback are made only after kv.get returned
\* the record and the binding cookie matched in that same request; a request
\* whose validation failed has returned an error and made no upstream call.
C6_UpstreamOnlyAfterChecks ==
    \A p \in Procs :
        /\ h[p].calls # <<>> => (h[p].live /\ Matching(p) /\ h[p].verdict = "ok")
        /\ (Validated(p) /\ h[p].verdict # "ok") =>
               /\ h[p].pc = "done" /\ h[p].calls = <<>>
               /\ h[p].resp.status >= 400 /\ h[p].resp.location = NULL

\* one request was halted by the binding check while another, for the same
\* state, went on to completeAuthorization
C6_Witness ==
    \E p, q \in Procs :
        /\ h[q].live /\ h[q].verdict = SessionMismatch
        /\ h[q].pc = "done" /\ h[q].calls = <<>>
        /\ h[p].state = h[q].state
        /\ h[p].calls = <<"fetchUpstreamAuthToken", "fetchGoogleUserInfo",
                          "completeAuthorization">>

\* C7 (as stated): a callback with a state parameter and no binding cookie
\* fails with the missing-binding error, whatever the state.
C7_AlwaysMissingBinding ==
    \A p \in Procs :
        (Validated(p) /\ ~Falsy(h[p].state) /\ BindingOf(p) = NULL)
            => h[p].verdict = MissingBinding

\* C7 (amended): a callback with a state parameter and no binding cookie
\* fails with the missing-binding error when kv.get returned the record of
\* the state, and with 'Invalid or expired state' when it did not; both are
\* invalid_request errors of status 400.
C7_MissingBindingWhenStored ==
    \A p \in Procs :
        (Validated(p) /\ ~Falsy(h[p].state) /\ BindingOf(p) = NULL) =>
            /\ h[p].verdict = IF h[p].live THEN MissingBinding ELSE InvalidOrExpired
            /\ h[p].resp.status = 400

\* the record was there and the request carried no binding cookie
C7_Witness ==
    \E p \in Procs :
        /\ Validated(p) /\ h[p].state \in Tokens /\ h[p].live
        /\ BindingOf(p) = NULL /\ h[p].verdict = MissingBinding

\* what a callback answers when kv.get returns nothing
InvalidStateResponse == toResponse(OAuthError("invalid_request", InvalidOrExpired, 400))

\* C8: a callback whose state's record had outlived its TTL when kv.get was
\* asked gets the very response of a callback whose state was never created
\* or was consumed before.
C8_ExpiredLikeUnknown ==
    \A p \in Procs :
        (/\ Validated(p) /\ ~Falsy(h[p].state)
         /\ h[p].expired \/ h[p].state = UnknownToken \/ h[p].prior >= 1)
            => h[p].resp = InvalidStateResponse

\* one callback met an expired record, with the right cookie, and another a
\* state never created: both got the same response
C8_Witness ==
    \E p, q \in Procs :
        /\ h[p].expired /\ h[p].state \in Tokens /\ Matching(p)
        /\ Validated(q) /\ h[q].state = UnknownToken
        /\ h[p].resp = h[q].resp /\ h[p].resp = InvalidStateResponse

\* ------------------------------------------ properties of the utilities

\* a form field or cookie value that is there
Present(x) == x \notin {NULL, "", FILE}

\* C4: validateCSRFToken succeeds exactly when the csrf_token form field and
\* the __Host-CSRF_TOKEN cookie value are both there (a non-empty text) and
\* the same text; otherwise it throws an invalid_request OAuthError.
C4_CsrfIff ==
    ret # Pending =>
        /\ ret.ok <=> (Present(call.form) /\ Present(call.token) /\ call.form = call.token)
        /\ ~ret.ok => (ret.err.error = "invalid_request" /\ ret.err.status = 400)

\* form field and cookie differed in case only, and the call threw
C4_Witness ==
    /\ ret # Pending
    /\ call.form = "K1" /\ call.token = "k1"
    /\ ~ret.ok /\ ret.err.description = "CSRF token mismatch"

\* C9 (as stated): for a request whose approved-clients cookie is absent,
\* malformed or wrongly signed, isClientApproved returns false and does not
\* throw.
C9_FailsClosed ==
    (ret # Pending /\ call.kind \in {"absent", "parts", "base64", "notlist", "signature"})
        => ret = [ok |-> TRUE, val |-> FALSE]

\* C10: when the payload part of a signed cookie is replaced by another
\* JSON text and the signature part is kept, isClientApproved returns false
\* for every client id, those of the signed list included; the untouched
\* cookie approves exactly the clients of its list.
C10_TamperedPayloadRefused ==
    ret # Pending =>
        /\ call.kind = "tampered" => ret = [ok |-> TRUE, val |-> FALSE]
        /\ call.kind = "valid" =>
               ret = [ok |-> TRUE,
                      val |-> \E i \in 1..Len(call.list) : call.list[i] = call.clientId]

\* the cookie signed for c1 was made to carry the list c1, c2, and c1 was
\* asked about
C10_Witness ==
    /\ call.kind = "tampered"
    /\ call.list = <<"c1">> /\ call.payload = PayloadOf(<<"c1", "c2">>)
    /\ call.clientId = "c1"
    /\ ret = [ok |-> TRUE, val |-> FALSE]

\* ------------------------------------ properties of the approved clients

\* the members of a list
Members(list) == {list[i] : i \in 1..Len(list)}

\* C11: the cookie addApprovedClient(request, c, s) returned, sent back in a
\* later request, makes isClientApproved(c, s) return true and
\* isClientApproved(c, s2) return false for a secret s2 other than s.
C11_RoundTrip ==
    (call.op = "ask" /\ call.added # <<>> /\ call.clientId = call.added[Len(call.added)])
        => ret = [ok |-> TRUE, val |-> call.askSecret = call.secret]

\* the odd client id was added under s2 and asked about under s2
C11_Witness ==
    /\ call.op = "ask" /\ call.added = <<OddClient>> /\ call.clientId = OddClient
    /\ call.secret = "s2" /\ call.askSecret = "s2"
    /\ ret = [ok |-> TRUE, val |-> TRUE]

\* C12: after a chain of addApprovedClient calls with one secret, each
\* given the cookie of the previous answer, the record of the last answer
\* holds every client id added so far and every id the first cookie
\* approved, each exactly once, and nothing else; so adding an id the
\* record already holds leaves its members as they were.
C12_ChainKeepsAll ==
    (call.op = "add" /\ ret.ok) =>
        /\ RecordOf(CookiePair(ret.val)) = RecordOf(call.cookie)
        /\ Members(RecordOf(call.cookie))
               = Members(TrustedStart(call.start, call.secret)) \cup Members(call.added)
        /\ Len(RecordOf(call.cookie)) = Cardinality(Members(RecordOf(call.cookie)))

\* c2 and then c1 were added to a cookie signed for c1, c2: the record
\* still is c1, c2
C12_Witness ==
    /\ call.op = "add" /\ ret.ok
    /\ call.start.kind = "valid" /\ call.start.list = <<"c1", "c2">>
    /\ call.secret = COOKIE_ENCRYPTION_KEY
    /\ call.added = <<"c2", "c1">>
    /\ RecordOf(call.cookie) = <<"c1", "c2">>

\* the first request's cookie is missing or fails signature verification
Untrusted(start, secret) ==
    \/ start.kind = "absent"
    \/ start.kind \in {"valid", "signature", "tampered"} /\ start.key # secret

\* C13: addApprovedClient called with a request whose approved-clients
\* cookie is missing or fails signature verification returns a record that
\* holds the added client id and no other.
C13_UntrustedIgnored ==
    (call.op = "add" /\ Len(call.added) <= 1 /\ Untrusted(call.start, call.secret))
        => /\ ret.ok
           /\ RecordOf(CookiePair(ret.val)) = <<call.clientId>>

\* c3 was added to a cookie signed for c2 whose payload was replaced by
\* the list c1, c2
C13_Witness ==
    /\ call.op = "add" /\ call.added = <<"c3">>
    /\ call.start.kind = "tampered"
    /\ call.start.payload = PayloadOf(<<"c1", "c2">>)
    /\ ret.ok /\ RecordOf(CookiePair(ret.val)) = <<"c3">>

\* --------------------------------------- properties of the authorize routes

\* the CSRF validation of the browser's request fails: no token in the
\* form, no CSRF cookie sent, or the two differ
CsrfFails(request) ==
    \/ request.csrf_token = NULL
    \/ request.sent.csrf = NULL
    \/ request.csrf_token # request.sent.csrf

\* C14: a POST /authorize whose CSRF validation fails writes no state
\* record, takes no state token, sets no cookie (the browser's jar stays as
\* it was) and answers no redirect.
C14_CsrfFailureNoEffect ==
    [][(call'.route = "POST" /\ CsrfFails(call'))
           => /\ kv' = kv /\ issued' = issued
              /\ ret'.put = NoPut
              /\ ret'.resp.setCookie = <<>> /\ call'.jar = call.jar
              /\ ret'.resp.status # 302 /\ ret'.resp.location = NULL]_vars

\* the consent form of c1 was submitted with token k2 by a browser holding
\* the CSRF cookie k1, and was refused
C14_Witness ==
    /\ call.route = "POST" /\ call.clientId = "c1"
    /\ call.csrf_token = "k2" /\ call.sent.csrf = "k1"
    /\ ret.resp.status = 400 /\ ret.put = NoPut

\* the consent submission of the browser's last request was accepted
Accepted(request, outcome) == request.route = "POST" /\ outcome.resp.status = 302

Approves(jar, clientId) ==
    \E l \in ClientLists :
        /\ \E i \in 1..Len(l) : l[i] = clientId
        /\ jar.approved = SignatureOf(PayloadOf(l), COOKIE_ENCRYPTION_KEY)
                          \o "." \o btoa(PayloadOf(l))

\* the answer is the redirect to the upstream provider for a new state
\* record of the client's request, bound to the session, with no dialog
RedirectedFor(outcome, clientId) ==
    /\ outcome.stateToken # NULL
    /\ outcome.put = createOAuthState(AuthRequest(clientId), outcome.stateToken)
    /\ outcome.resp.status = 302
    /\ outcome.resp.location = getUpstreamAuthorizeUrl(outcome.stateToken)
    /\ \E i \in 1..Len(outcome.resp.setCookie) :
           outcome.resp.setCookie[i] = bindStateToSession(outcome.stateToken)
    /\ outcome.resp.form = NoForm

\* the answer is the consent dialog with a CSRF token in the form and in
\* the cookie; no state record, no redirect
DialogFor(outcome, clientId) ==
    /\ outcome.stateToken = NULL /\ outcome.put = NoPut
    /\ outcome.resp.status = 200 /\ outcome.resp.location = NULL
    /\ outcome.resp.form.csrf_token \in CsrfTokens
    /\ outcome.resp.form.state = EncodedState(AuthRequest(clientId))
    /\ outcome.resp.setCookie
           = <<generateCSRFProtection(outcome.resp.form.csrf_token).setCookie>>

\* C16 (as stated): GET /authorize for a client id answers the redirect
\* when the request's approved-clients cookie verifies and holds the id,
\* and the consent dialog otherwise.
C16_RedirectOrDialog ==
    call.route = "GET" =>
        IF Approves(call.sent, call.clientId)
        THEN RedirectedFor(ret, call.clientId)
        ELSE DialogFor(ret, call.clientId)

\* C17 (as stated): once a consent submission for a client was accepted and
\* the browser has applied the cookies of the answer, the browser's next
\* GET /authorize for that client is redirected without the dialog.
C17_ApprovedAfterConsent ==
    [][(Accepted(call, ret) /\ call'.route = "GET" /\ call'.clientId = call.clientId)
           => RedirectedFor(ret', call'.clientId)]_vars

\* C18 (as stated): the 302 that answers an accepted consent submission
\* carries two Set-Cookie headers, the text addApprovedClient returned and
\* the text bindStateToSession returned.
C18_BothCookiesSet ==
    Accepted(call, ret) =>
        /\ Len(ret.resp.setCookie) = 2
        /\ \E i \in 1..Len(ret.resp.setCookie) :
               ret.resp.setCookie[i]
                   = addApprovedClient(CookieHeaderOf(call.sent), call.clientId,
                                       COOKIE_ENCRYPTION_KEY).val
        /\ \E i \in 1..Len(ret.resp.setCookie) :
               ret.resp.setCookie[i] = bindStateToSession(ret.stateToken)

\* C19: a state record is written only together with the redirect that
\* carries its token, every redirect to the upstream provider carries the
\* token of the record just written, and with it the Set-Cookie that gives
\* the session-binding cookie the SHA-256 hex digest of that token, which
\* the browser then holds.
C19_RedirectBindsSession ==
    (ret.put # NoPut \/ ret.resp.location # NULL \/ ret.stateToken # NULL) =>
        /\ ret.stateToken \in FlowTokens
        /\ ret.put.key = StateKey(ret.stateToken)
        /\ ret.resp.status = 302
        /\ ret.resp.location = getUpstreamAuthorizeUrl(ret.stateToken)
        /\ \E i \in 1..Len(ret.resp.setCookie) :
               ret.resp.setCookie[i]
                   = consentedStateCookieName \o "=" \o HashHex(ret.stateToken)
                     \o CookieAttrs(600)
        /\ call.jar.binding = HashHex(ret.stateToken)

\* an accepted consent submission was answered with the redirect for t1
C19_Witness ==
    /\ Accepted(call, ret) /\ ret.stateToken = "t1"
    /\ ret.resp.location = getUpstreamAuthorizeUrl("t1")
    /\ call.jar.binding = HashHex("t1")

\* ------------------------------------------ properties of the stored request

\* C20: the request validateOAuthState returns for the token
\* createOAuthState stored a request under is that request, and it is the
\* request GET /callback hands to completeAuthorization.
C20_RequestRoundTrip ==
    /\ (call.stage \in {"validated", "done"} /\ ret.validated.ok)
           => ret.validated.oauthReqInfo = call.r
    /\ ret.completed.called
           => /\ ret.completed.request = call.r
              /\ ret.completed.scope = Member(call.r, "scope")

\* the request of the odd client id went through the store to
\* completeAuthorization
C20_Witness ==
    /\ call.stage = "done" /\ call.r = AuthRequest(OddClient)
    /\ ret.completed.called
    /\ ret.completed.request = AuthRequest(OddClient)

\* ------------------------------------- properties of GET /callback's answers

\* what GET /callback answers when an upstream step fails
UpstreamFailures ==
    {TextResponse("Missing code", 400)}
    \cup {TokenResult(reply).err : reply \in {r \in TokenReplies : TokenResult(r).tokens = NULL}}
    \cup {TextResponse("Failed to fetch user info", 500)}

\* the request of slot p was validated and then failed at an upstream step
UpstreamFailed(p) ==
    /\ h[p].pc = "done" /\ h[p].verdict = "ok"
    /\ h[p].resp \in UpstreamFailures

\* C21: a callback whose state was validated and whose upstream step failed
\* has made each upstream call at most once and not called
\* completeAuthorization, and the record of its state is gone; every
\* callback for a state that comes in after a validation of that state
\* succeeded (so after such a failure) fails with 'Invalid or expired state'.
C21_UpstreamFailureEndsFlow ==
    \A p \in Procs :
        /\ UpstreamFailed(p) =>
               /\ h[p].calls \in {<<"fetchUpstreamAuthToken">>,
                                  <<"fetchUpstreamAuthToken", "fetchGoogleUserInfo">>}
               /\ kv[StateKey(h[p].state)] = Absent
               /\ hist[h[p].state].succ >= 1
        /\ (Validated(p) /\ ~Falsy(h[p].state) /\ h[p].prior >= 1)
               => /\ h[p].verdict = InvalidOrExpired /\ h[p].calls = <<>>

\* the token exchange of one callback was rejected, and the callback that
\* came next with the same state and the right cookie was refused
C21_Witness ==
    \E p, q \in Procs :
        /\ UpstreamFailed(p) /\ h[p].resp.body = "Failed to fetch access token"
        /\ h[q].state = h[p].state /\ Matching(q) /\ h[q].prior = 1
        /\ h[q].verdict = InvalidOrExpired

\* C22 (as stated): the error response of a callback that fails at an
\* upstream step, after validateOAuthState succeeded, carries the directive
\* that clears the session-binding cookie.
C22_FailureClearsCookie ==
    \A p \in Procs :
        UpstreamFailed(p) =>
            \E i \in 1..Len(h[p].resp.setCookie) :
                h[p].resp.setCookie[i] = clearSessionCookie

\* the response is the structured error of code invalid_request: a JSON
\* object with error "invalid_request" and a text error_description
IsInvalidRequest(resp) ==
    LET Structured(parsed) ==
            /\ parsed.ok
            /\ Member(parsed.val, "error") = JStr("invalid_request")
            /\ Member(parsed.val, "error_description").t = "str"
    IN  resp.status = 400 /\ Structured(JSONparse(resp.body))

\* C23 (as stated): every POST /authorize refused for a missing state, a
\* malformed state payload, a missing client id, or a missing or mismatching
\* CSRF token is answered 400 with the structured invalid_request error.
C23_StructuredInvalidRequest ==
    (call.route = "POST" /\ ret.resp.status \notin {302, 500}) => IsInvalidRequest(ret.resp)

\* the callback of the pure-function specifications carried the cookie
\* bindStateToSession sets for its state
CarriedBinding ==
    /\ call.cookie # NULL
    /\ CookieValue(call.cookie, consentedStateCookieName) = HashHex(call.t)

CorruptState == OAuthError("server_error", "Invalid state data", 500)

AttributesOf(setCookie) ==
    LET Rest(pieces) == {pieces[i] : i \in 2..Len(pieces)}
    IN  Rest(MapTrim(Split(setCookie, ";")))

\* the callback of slot p called completeAuthorization
Completed(p) == \E i \in 1..Len(h[p].calls) : h[p].calls[i] = "completeAuthorization"

\* C29: a callback that went through validation, token exchange, user info
\* and completeAuthorization answers 302 to the client's redirect target,
\* with one Set-Cookie: __Host-CONSENTED_STATE emptied, with Max-Age=0.
C29_SuccessClearsBinding ==
    \A p \in Procs :
        (Completed(p) /\ h[p].pc = "done") =>
            /\ h[p].resp.status = 302 /\ h[p].resp.location = "redirectTo"
            /\ Len(h[p].resp.setCookie) = 1
            /\ CookiePair(h[p].resp.setCookie[1]) = "__Host-CONSENTED_STATE="
            /\ "Max-Age=0" \in AttributesOf(h[p].resp.setCookie[1])

\* a callback was redirected to the client after completeAuthorization
C29_Witness ==
    \E p \in Procs :
        /\ Completed(p) /\ h[p].pc = "done" /\ h[p].verdict = "ok"
        /\ h[p].resp.status = 302

\* C30: a callback calls completeAuthorization only after its own
\* validation, token exchange and user-info fetch, once; and with callbacks
\* served one after the other a state token is validated at most once, by
\* the only request that can complete for it.
C30_CompleteOnce ==
    /\ \A p \in Procs :
           Completed(p) =>
               /\ h[p].verdict = "ok" /\ h[p].live /\ Matching(p)
               /\ h[p].calls = <<"fetchUpstreamAuthToken", "fetchGoogleUserInfo",
                                 "completeAuthorization">>
               /\ h[p].prior = 0 /\ hist[h[p].state].succ = 1
    /\ \A t \in AllTokens : hist[t].succ <= 1
    /\ \A p, q \in Procs : (p # q /\ Completed(p) /\ Completed(q)) => h[p].state # h[q].state

\* after a callback completed for a state, the next one for it, with the
\* same cookie, was refused before any upstream call
C30_Witness ==
    \E p, q \in Procs :
        /\ Completed(p) /\ h[p].pc = "done"
        /\ h[q].state = h[p].state /\ Matching(q) /\ h[q].prior = 1
        /\ h[q].pc = "done" /\ h[q].verdict = InvalidOrExpired /\ h[q].calls = <<>>

\* ------------------------------------------ properties of flows side by side

\* C25: a createOAuthState call makes one write and nothing else: the key
\* oauth:state:<token> of the token it returns, which held nothing, now holds
\* the serialized request with an expiry 600 seconds ahead; every other key
\* of the store, and every callback in flight, is as before.
C25_CreateWritesOnce ==
    [][issued' # issued =>
          \E t \in FlowTokens \ issued :
              /\ issued' = issued \cup {t}
              /\ call'.stateToken = t
              /\ kv["oauth:state:" \o t] = Absent
              /\ kv'["oauth:state:" \o t].exp = now + 600
              /\ JSONparse(kv'["oauth:state:" \o t].value)
                     = [ok |-> TRUE, val |-> call'.oauthReqInfo]
              /\ \A k \in DOMAIN kv \ {"oauth:state:" \o t} : kv'[k] = kv[k]
              /\ DOMAIN kv' = DOMAIN kv
              /\ h' = h]_vars

\* createOAuthState returned t2 while the record of t1, for another request,
\* was in the store, and both are there
C25_Witness ==
    /\ call.stateToken = "t2"
    /\ kv[StateKey("t1")] # Absent /\ kv[StateKey("t2")] # Absent
    /\ kv[StateKey("t1")].value # kv[StateKey("t2")].value
    /\ kv[StateKey("t1")].exp < kv[StateKey("t2")].exp

\* C26: a step of a flow (createOAuthState, or a step of validateOAuthState
\* for a callback, accepted or refused) leaves the record of every other
\* state token as it was, and a callback validateOAuthState accepted got the
\* request that was stored for its own token.
C26_FlowsIndependent ==
    /\ [][\A u \in FlowTokens :
             (/\ u \notin issued' \ issued
              /\ \A p \in Procs : h'[p] # h[p] => h'[p].state # u)
                 => kv'[StateKey(u)] = kv[StateKey(u)]]_vars
    /\ [](\A p \in Procs : h[p].verdict = "ok" => h[p].info = ret[h[p].state])

\* the callbacks of two flows created for different requests were both
\* accepted, each with its own request
C26_Witness ==
    \E p, q \in Procs :
        /\ h[p].state = "t1" /\ h[p].verdict = "ok"
        /\ h[q].state = "t2" /\ h[q].verdict = "ok"
        /\ h[p].info # h[q].info

\* ------------------------------------------ properties of the Set-Cookie texts

\* the Max-Age each operation's cookie is to have
MaxAgeOf(op) ==
    IF op \in {"generateCSRFProtection", "bindStateToSession"} THEN "Max-Age=600"
    ELSE IF op = "addApprovedClient" THEN "Max-Age=2592000"
    ELSE "Max-Age=0"

\* C27: the Set-Cookie text of every operation names a __Host- cookie and
\* its attributes are exactly HttpOnly, Secure, Path=/, SameSite=Lax and the
\* Max-Age of the operation (600 for the CSRF and binding cookies, 2592000
\* for the approved-clients cookie, 0 for the clearing ones): no Domain.
C27_CookieAttributes ==
    call.op # "none" =>
        /\ StartsWith(ret, "__Host-")
        /\ \E i \in 8..Len(ret) : Ch(ret, i) = "="
        /\ AttributesOf(ret)
               = {"HttpOnly", "Secure", "Path=/", "SameSite=Lax", MaxAgeOf(call.op)}

\* the approved-clients cookie set for a client id that holds ';', '=' and
\* blanks
C27_Witness ==
    /\ call.op = "addApprovedClient" /\ call.clientId = OddClient
    /\ StartsWith(ret, "__Host-APPROVED_CLIENTS=")

\* ------------------------------------------------- properties of sanitizeUrl

\* C28: sanitizeUrl returns the empty text or the trimmed input unchanged,
\* and the trimmed input only when it is an http or https URL: a text with a
\* control character, a text that is no URL, a URL of another scheme and the
\* empty text all give the empty text.
C28_SanitizeUrl ==
    call.returned =>
        /\ ret \in {"", call.core}
        /\ ret # "" => call.kind = "web"

\* an https URL written in capitals, with white space around it, came back
\* trimmed and otherwise unchanged
C28_Witness ==
    /\ call.returned /\ call.core = "HTTPS://EXAMPLE.COM/" /\ call.url # call.core
    /\ ret = call.core

\* ------------------------------------------ properties of a browser's session

\* C31: when the records of two flows t and u are in the store and the
\* browser holds the binding cookie of u (the later one), its callback with
\* state t is refused as a session mismatch and changes neither the store nor
\* its cookies, and its callback with state u passes validateOAuthState,
\* which deletes the record of u only.
C31_OneBindingPerBrowser ==
    [][\A t, u \in FlowTokens :
          (/\ t # u
           /\ kv[StateKey(t)] # Absent /\ kv[StateKey(u)] # Absent
           /\ call.jar.binding = HashHex(u)
           /\ call'.route = "CALLBACK" /\ call'.sent = call.jar)
              => /\ call'.state = t =>
                     /\ ret'.resp = toResponse(OAuthError("invalid_request",
                                        SessionMismatch, 400))
                     /\ kv' = kv /\ call'.jar = call.jar
                 /\ call'.state = u =>
                     /\ kv' = [kv EXCEPT ![StateKey(u)] = Absent]
                     /\ ret'.resp.status = 302 =>
                            /\ ret'.resp.setCookie = <<clearSessionCookie>>
                            /\ call'.jar.binding = NULL]_vars

\* the browser was bound to t1 and then to t2, and its callback for t1 was
\* refused while both records were there
C31_Witness ==
    /\ call.route = "CALLBACK" /\ call.state = "t1"
    /\ call.sent.binding = HashHex("t2") /\ call.jar.binding = HashHex("t2")
    /\ issued = {"t1", "t2"}
    /\ kv[StateKey("t1")] # Absent /\ kv[StateKey("t2")] # Absent
    /\ ret.resp.status = 400

\* C32 (as stated): when the browser was shown the dialog of a client and
\* next submits the form with that dialog's CSRF token, an accepted
\* submission stores the authorization request of that client.
C32_ConsentForRenderedClient ==
    [][(/\ call.route = "GET" /\ ret.resp.form.csrf_token # NULL
        /\ call'.route = "POST" /\ call'.csrf_token = ret.resp.form.csrf_token
        /\ ret'.resp.status = 302)
           => Member(JSONparse(ret'.put.value).val, "clientId") = JStr(call.clientId)]_vars

\* ---------------------------------------- properties of fetchUpstreamAuthToken

\* C33 (as stated): every call returns either a token and no response or a
\* response and no token: 400 without any upstream request for a missing
\* code, 500 for a reply that is not OK, 400 for an OK reply whose body has
\* an error or no access_token, and a token otherwise; at most one request
\* is sent.
C33_TokenOrResponse ==
    call.returned =>
        /\ ret.thrown = NULL
        /\ (ret.tokens = NULL) # (ret.err = NoResp)
        /\ ret.sent <= 1
        /\ Falsy(call.code) => (ret.err.status = 400 /\ ret.sent = 0)
        /\ (~Falsy(call.code) /\ ~call.reply.ok) => ret.err.status = 500
        /\ (~Falsy(call.code) /\ call.reply.ok /\ ret.tokens = NULL) => ret.err.status = 400

\* ------------------------------------------- properties of the service worker

\* the entries of the cache `name`
EntriesOf(cacheStorage, name) ==
    UNION {cacheStorage[i].entries : i \in {j \in 1..Len(cacheStorage) : cacheStorage[j].name = name}}

\* C34: once the activate handler has finished, every cache that caches.keys()
\* listed under a name starting with 'skinn-' other than 'skinn-fonts-v1' is
\* gone, the cache 'skinn-fonts-v1' is there with every URL it held, and every
\* cache whose name does not start with 'skinn-' is there with the entries
\* it had.
C34_ActivateDeletesOldCaches ==
    call.phase = "activated" =>
        \A name \in CachesKeys(hist) :
            IF StartsWith(name, "skinn-") /\ name # "skinn-fonts-v1"
            THEN ~HasCache(kv, name)
            ELSE /\ HasCache(kv, name)
                 /\ {e.url : e \in EntriesOf(hist, name)} \subseteq {e.url : e \in EntriesOf(kv, name)}
                 /\ name # "skinn-fonts-v1" => EntriesOf(kv, name) = EntriesOf(hist, name)

C34_Witness ==
    /\ call.phase = "activated"
    /\ HasCache(hist, "skinn-static-v2") /\ ~HasCache(kv, "skinn-static-v2")
    /\ HasCache(kv, "other-cache") /\ HasCache(kv, "Skinn-fonts-v0")
    /\ HasCache(kv, "skinn") /\ HasCache(kv, "skinn-fonts-v1")

\* the responses the caches hold for a URL
HeldFor(cacheStorage, url) ==
    {e.response : e \in {d \in UNION {cacheStorage[i].entries : i \in 1..Len(cacheStorage)}
                                : d.url = url}}

\* C35: a GET request whose path contains '/fonts/' and ends with '.woff2'
\* and for which a cache holds an entry is answered, when caches.match
\* answers, with a held response and without a network fetch; for a request
\* whose path is not of that pattern respondWith is never called and the
\* listener fetches and stores nothing.
C35_CacheFirstForFonts ==
    [][\A p \in Procs :
          /\ (/\ h[p].pc = "match" /\ h'[p].pc # "match"
              /\ h[p].request.font /\ h[p].request.method = "GET"
              /\ HeldFor(kv, h[p].request.url) # {})
             => /\ h'[p].pc = "done" /\ h'[p].intercepted
                /\ h'[p].resp \in HeldFor(kv, h[p].request.url)
                /\ h'[p].fetches = 0 /\ h'[p].put = "none"
          /\ (h'[p].pc # "idle" /\ ~h'[p].request.font)
             => /\ ~h'[p].intercepted /\ h'[p].pc = "done"
                /\ h'[p].fetches = 0 /\ h'[p].put = "none"
                /\ h'[p].resp = Undefined]_vars

C35_Witness ==
    \E p, q \in Procs :
        /\ h[p].pc = "done" /\ h[p].request.font /\ h[p].intercepted
        /\ h[p].resp.body = "precached" /\ h[p].fetches = 0
        /\ h[q].pc = "done" /\ ~h[q].request.font /\ ~h[q].intercepted
        /\ h[q].request.url = Origin \o "/static/fonts.woff2"

\* the font request of slot p missed the caches and the network answered
MissAnswered(p) ==
    /\ h[p].pc = "done" /\ h[p].request.font
    /\ h[p].matched = Undefined /\ h[p].fetches = 1

\* C36: after a cache miss for a font request the page has the network
\* response, and once the cache write has settled (stored, rejected, or
\* never started) a copy was stored exactly when the response is ok; the
\* cache 'skinn-fonts-v1' holds ok responses only.
C36_StoresIffOk ==
    /\ \A p \in Procs :
          (MissAnswered(p) /\ h[p].put \in {"none", "stored", "rejected"})
             => /\ h[p].resp \in NetworkReplies
                /\ h[p].put = "stored" <=> IsOk(h[p].resp)
    /\ \A e \in EntriesOf(kv, CACHE_NAME) : IsOk(e.response)

====
